---- MODULE Spec2Model ----
(***************************************************************************)
(* DataBuddy backend: the multi-tenant schema registry, the query gateway  *)
(* (DatabaseManager, backend/app/database.py), the statement validator     *)
(* (SQLValidator, backend/app/sql_validator.py) and the request handlers   *)
(* that combine them (backend/app/main.py).                                *)
(*                                                                         *)
(* Statement text is a TLA+ string; a character is a string of length 1.   *)
(* The str and re primitives are functions, so that an argument is a value *)
(* when the body reads it; Let binds an intermediate result the same way.  *)
(***************************************************************************)
EXTENDS Integers, Sequences, FiniteSets, TLC

VARIABLES
    sql,            \* validator harness: the statement text under validation
    verdict,        \* validator harness: validate_sql's (is_valid, error_message)
    user_databases, \* the registry table user_databases: a set of rows
    tables,         \* the tenant tables of the store: physical name -> columns and rows
    next_uuid,      \* uuid.uuid4(): the next fresh identifier
    last,           \* the most recent request: handler, arguments, outcome, store events
    call,           \* the most recent DatabaseManager call: method, arguments, outcome
    pending,        \* delete_database calls between their lookup and their transaction
    bound,          \* history: every (physical name, descriptor id) the registry ever held
    now,            \* the clock of the store, read by NOW()
    utcnow,         \* the clock of the server, read by datetime.utcnow()
    lent            \* SimpleConnectionPool: the number of connections lent out

vars == <<sql, verdict, user_databases, tables, next_uuid, last, call, pending, bound,
          now, utcnow, lent>>

\* F(e), with e evaluated once: a local variable of the code
Let(e, F(_)) == CHOOSE r \in {F(v) : v \in {e}} : TRUE
Let2(e1, e2, F(_, _)) == CHOOSE r \in {F(v, w) : v \in {e1}, w \in {e2}} : TRUE

\* the least and the greatest element of a non-empty set of indexes
Least[S \in SUBSET Int] == CHOOSE j \in S : \A k \in S : j <= k
Greatest[S \in SUBSET Int] == CHOOSE j \in S : \A k \in S : k <= j

-----------------------------------------------------------------------------
(* Python str primitives used by the code.                                 *)

Ch(s, i) == SubSeq(s, i, i)

LowerLetters == "abcdefghijklmnopqrstuvwxyz"
UpperLetters == "ABCDEFGHIJKLMNOPQRSTUVWXYZ"
Digits == "0123456789"

CharsOf(s) == {Ch(s, i) : i \in 1..Len(s)}

\* str.isspace() / regex \s on the characters the model uses
IsSpace(c) == c \in {" ", "\t", "\n", "\r"}

\* regex \w
WordChars == CharsOf(LowerLetters) \cup CharsOf(UpperLetters) \cup CharsOf(Digits) \cup {"_"}
IsWordChar(c) == c \in WordChars

\* str.upper() on one character
UpperMap == [c \in CharsOf(LowerLetters) |->
                Ch(UpperLetters, CHOOSE i \in 1..Len(LowerLetters) : Ch(LowerLetters, i) = c)]
UpperChar[c \in STRING] == IF c \in DOMAIN UpperMap THEN UpperMap[c] ELSE c

\* str.upper(), character by character
Upper[s \in STRING] ==
    IF Len(s) = 0 THEN ""
    ELSE IF Len(s) = 1 THEN UpperChar[s]
    ELSE Upper[SubSeq(s, 1, Len(s) \div 2)] \o Upper[SubSeq(s, Len(s) \div 2 + 1, Len(s))]

\* str.lower() on one character
LowerMap == [c \in CharsOf(UpperLetters) |->
                Ch(LowerLetters, CHOOSE i \in 1..Len(UpperLetters) : Ch(UpperLetters, i) = c)]
LowerChar[c \in STRING] == IF c \in DOMAIN LowerMap THEN LowerMap[c] ELSE c

\* str.lower(), character by character
Lower[s \in STRING] ==
    IF Len(s) = 0 THEN ""
    ELSE IF Len(s) = 1 THEN LowerChar[s]
    ELSE Lower[SubSeq(s, 1, Len(s) \div 2)] \o Lower[SubSeq(s, Len(s) \div 2 + 1, Len(s))]

\* the first member of a set of indexes, Len(s)+1 if it is empty
FirstStop[s \in STRING, stops \in SUBSET Int] ==
    IF stops = {} THEN Len(s) + 1 ELSE Least[stops]

\* the first index >= i whose character is not whitespace, Len(s)+1 if none
SkipSpace[s \in STRING, i \in Int] ==
    IF i > Len(s) THEN Len(s) + 1
    ELSE IF ~IsSpace(Ch(s, i)) THEN i ELSE SkipSpace[s, i + 1]

\* the first index >= i whose character is not a word character
SkipWord[s \in STRING, i \in Int] ==
    IF i > Len(s) THEN Len(s) + 1
    ELSE IF ~IsWordChar(Ch(s, i)) THEN i ELSE SkipWord[s, i + 1]

\* the first index >= i whose character is whitespace
SkipNonSpace[s \in STRING, i \in Int] ==
    IF i > Len(s) THEN Len(s) + 1
    ELSE IF IsSpace(Ch(s, i)) THEN i ELSE SkipNonSpace[s, i + 1]

\* the last index whose character is not whitespace, 0 if none
LastNonSpace[s \in STRING] ==
    IF s = "" THEN 0
    ELSE IF ~IsSpace(Ch(s, Len(s))) THEN Len(s) ELSE LastNonSpace[SubSeq(s, 1, Len(s) - 1)]

\* str.strip()
Strip[s \in STRING] == SubSeq(s, SkipSpace[s, 1], LastNonSpace[s])

\* str.count(c) for a one-character c
Count[s \in STRING, c \in STRING] == Cardinality({i \in 1..Len(s) : Ch(s, i) = c})

\* lit occurs in s at index i
MatchAt[s \in STRING, i \in Int, lit \in STRING] ==
    /\ i >= 1
    /\ i + Len(lit) - 1 <= Len(s)
    /\ SubSeq(s, i, i + Len(lit) - 1) = lit

\* Python's `sub in s`
Contains[s \in STRING, sub \in STRING] == \E i \in 1..(Len(s) + 1) : MatchAt[s, i, sub]

\* str.endswith / str.startswith
EndsWith[s \in STRING, suffix \in STRING] == MatchAt[s, Len(s) - Len(suffix) + 1, suffix]
StartsWith[s \in STRING, prefix \in STRING] == MatchAt[s, 1, prefix]

\* str.split(): the whitespace-separated words, in order
SplitFrom[s \in STRING, i \in Int] ==
    Let(SkipSpace[s, i],
        LAMBDA a : IF a > Len(s) THEN <<>>
                   ELSE Let(SkipNonSpace[s, a],
                            LAMBDA b : <<SubSeq(s, a, b - 1)>> \o SplitFrom[s, b]))

Split[s \in STRING] == SplitFrom[s, 1]

-----------------------------------------------------------------------------
(* Regular expressions of SQLValidator.DANGEROUS_KEYWORDS.                 *)

\* regex \b between index i-1 and index i
WordBoundary[s \in STRING, i \in Int] ==
    LET before == i - 1 >= 1 /\ i - 1 <= Len(s) /\ IsWordChar(Ch(s, i - 1))
        after == i >= 1 /\ i <= Len(s) /\ IsWordChar(Ch(s, i))
    IN before # after

\* \bW1\s+W2\b matched with W1 starting at index i
TwoWordsAt[s \in STRING, i \in Int, w1 \in STRING, w2 \in STRING] ==
    /\ WordBoundary[s, i]
    /\ MatchAt[s, i, w1]
    /\ Let(SkipSpace[s, i + Len(w1)],
           LAMBDA k : /\ k > i + Len(w1)
                      /\ MatchAt[s, k, w2]
                      /\ WordBoundary[s, k + Len(w2)])

\* \bW\b matched at index i
OneWordAt[s \in STRING, i \in Int, w \in STRING] ==
    /\ WordBoundary[s, i]
    /\ MatchAt[s, i, w]
    /\ WordBoundary[s, i + Len(w)]

\* \w+\s* matched at index n: the index after the match, 0 if none
NameEnd[s \in STRING, n \in Int] ==
    Let(SkipWord[s, n], LAMBDA p : IF p > n THEN SkipSpace[s, p] ELSE 0)

\* \bDELETE\s+FROM\s+\w+\s* matched at index i: the index after the match, 0 if none
DeleteFromEnd[s \in STRING, i \in Int] ==
    IF ~(WordBoundary[s, i] /\ MatchAt[s, i, "DELETE"]) THEN 0
    ELSE Let(SkipSpace[s, i + Len("DELETE")],
             LAMBDA k :
                IF ~(k > i + Len("DELETE") /\ MatchAt[s, k, "FROM"]) THEN 0
                ELSE Let(SkipSpace[s, k + Len("FROM")],
                         LAMBDA n : IF n > k + Len("FROM") THEN NameEnd[s, n] ELSE 0))

\* re.search(pattern, s) as a boolean, one case per entry of DANGEROUS_KEYWORDS
ReSearch[pattern \in STRING, s \in STRING] ==
    \E i \in 1..(Len(s) + 1) :
        CASE pattern = "\\bDROP\\s+TABLE\\b" -> TwoWordsAt[s, i, "DROP", "TABLE"]
          [] pattern = "\\bDROP\\s+DATABASE\\b" -> TwoWordsAt[s, i, "DROP", "DATABASE"]
          [] pattern = "\\bTRUNCATE\\b" -> OneWordAt[s, i, "TRUNCATE"]
          [] pattern = "\\bALTER\\s+TABLE\\b" -> TwoWordsAt[s, i, "ALTER", "TABLE"]
          [] pattern = "\\bDELETE\\s+FROM\\s+\\w+\\s*$" ->
                DeleteFromEnd[s, i] = Len(s) + 1
          [] pattern = "\\bDELETE\\s+FROM\\s+\\w+\\s*;" ->
                Let(DeleteFromEnd[s, i], LAMBDA e : e # 0 /\ MatchAt[s, e, ";"])

DANGEROUS_KEYWORDS ==
    << "\\bDROP\\s+TABLE\\b",
       "\\bDROP\\s+DATABASE\\b",
       "\\bTRUNCATE\\b",
       "\\bALTER\\s+TABLE\\b",
       "\\bDELETE\\s+FROM\\s+\\w+\\s*$",
       "\\bDELETE\\s+FROM\\s+\\w+\\s*;" >>

ALLOWED_OPERATIONS == {"SELECT", "INSERT", "UPDATE", "DELETE"}

-----------------------------------------------------------------------------
(* SQLValidator.validate_sql                                               *)

\* sql.count(';') > 1 or (';' in sql and not sql.strip().endswith(';'))
MultipleStatements(text) ==
    \/ Count[text, ";"] > 1
    \/ (Contains[text, ";"] /\ ~EndsWith[Strip[text], ";"])

\* DangerousHits with the denylist loop left out
NoDangerousHits(sql_upper) == {}

\* the entries of DANGEROUS_KEYWORDS that re.search finds in sql_upper
DangerousHits(sql_upper) ==
    {i \in 1..Len(DANGEROUS_KEYWORDS) : ReSearch[DANGEROUS_KEYWORDS[i], sql_upper]}

\* FirstWord reading sql_upper.split()[-1]
LastWord(sql_upper) ==
    Let(Split[sql_upper], LAMBDA words : IF words # <<>> THEN words[Len(words)] ELSE "")

\* sql_upper.split()[0] if sql_upper.split() else ""
FirstWord(sql_upper) ==
    Let(Split[sql_upper], LAMBDA words : IF words # <<>> THEN words[1] ELSE "")

\* first_word == 'DELETE' and 'WHERE' not in sql_upper
DeleteWithoutWhere(first_word, sql_upper) ==
    first_word = "DELETE" /\ ~Contains[sql_upper, "WHERE"]

MsgMultiple == "Multiple SQL statements are not allowed"
MsgDangerous == "Dangerous SQL operation detected: "
MsgNotAllowed(first_word) == "SQL operation '" \o first_word \o "' is not allowed"
MsgMissingWhere == "DELETE queries must include a WHERE clause for safety"

Verdict(is_valid, error_message) == [is_valid |-> is_valid, error_message |-> error_message]

\* the checks of validate_sql after the multiple-statement check, on
\* sql_upper = sql.strip().upper()
CheckUpper(sql_upper) ==
    Let2(DangerousHits(sql_upper), FirstWord(sql_upper),
         LAMBDA hits, first_word :
            IF hits # {}
            THEN Verdict(FALSE, MsgDangerous \o DANGEROUS_KEYWORDS[Least[hits]])
            ELSE IF first_word \notin ALLOWED_OPERATIONS
            THEN Verdict(FALSE, MsgNotAllowed(first_word))
            ELSE IF DeleteWithoutWhere(first_word, sql_upper)
            THEN Verdict(FALSE, MsgMissingWhere)
            ELSE Verdict(TRUE, ""))

\* validate_sql(sql) -> (is_valid, error_message)
validate_sql(text) ==
    IF MultipleStatements(text)
    THEN Verdict(FALSE, MsgMultiple)
    ELSE Let(Upper[Strip[text]], CheckUpper)

-----------------------------------------------------------------------------
(* Statement texts the validator is exercised on: every concatenation of   *)
(* at most MaxPieces pieces, and whole statements.                         *)

MaxPieces == 3

Pieces ==
    { "select", "DELETE FROM t", " WHERE id = 'x'", " nowhere",
      " Drop", " alter", " TRUNCATE", " TABLE x", " DATABASE d",
      "/**/", ";", " " }

\* whole statements, among them the ones the design document names
Examples ==
    { "DROP TABLE x", "DELETE FROM t", "DELETE FROM t WHERE id = 'x'",
      "SELECT 1; SELECT 2", "SELECT 1;", "\n\tSELECT 1 ;\n",
      "INSERT INTO t (a) VALUES (1)", "UPDATE t SET a = 1 WHERE id = 'x'",
      "EXPLAIN SELECT 1", "delete\nfrom t ;", "DELETE FROM t AS a" }

RECURSIVE TextsOf(_)
TextsOf(n) ==
    IF n = 0 THEN {""}
    ELSE Let(TextsOf(n - 1),
             LAMBDA shorter : shorter \cup {t \o p : t \in shorter, p \in Pieces})

Texts == TextsOf(MaxPieces) \cup Examples

NotValidated == Verdict(FALSE, "(not validated)")

-----------------------------------------------------------------------------
(* The store (PostgreSQL behind psycopg2): relation names and the part of  *)
(* statement execution the gateway depends on.                             *)

\* Optional values: None, or the one value of Some
None == {}
Some(x) == {x}
The(opt) == CHOOSE x \in opt : TRUE

\* str.replace(a, b) for one-character a and b
Replace[s \in STRING, a \in STRING, b \in STRING] ==
    IF Len(s) = 0 THEN ""
    ELSE IF Len(s) = 1 THEN (IF s = a THEN b ELSE s)
    ELSE Replace[SubSeq(s, 1, Len(s) \div 2), a, b]
         \o Replace[SubSeq(s, Len(s) \div 2 + 1, Len(s)), a, b]

\* the tables _init_global_database creates
SystemTables == {"users", "user_databases", "plaid_tokens", "google_tokens"}

\* an unquoted identifier the store accepts as a relation name
IsIdentifier[name \in STRING] ==
    /\ name # ""
    /\ \A i \in 1..Len(name) : IsWordChar(Ch(name, i))
    /\ Ch(name, 1) \notin CharsOf(Digits)

\* the length the store cuts an identifier to (NAMEDATALEN - 1)
IdentifierLimit == 63

\* the leading run of word characters of a word, folded to lower case and cut to
\* the identifier limit as the store does with unquoted identifiers
IdentOf[word \in STRING] ==
    Let(SkipWord[word, 1] - 1,
        LAMBDA n : Lower[SubSeq(word, 1, IF n > IdentifierLimit THEN IdentifierLimit ELSE n)])

\* the statement without its trailing terminator
Unterminated[text \in STRING] ==
    Let(Strip[text],
        LAMBDA t : IF EndsWith[t, ";"] THEN Strip[SubSeq(t, 1, Len(t) - 1)] ELSE t)

\* the statement's operation: its leading keyword
StatementKind[text \in STRING] == FirstWord(Upper[Unterminated[text]])

\* the word that follows the first occurrence of keyword kw, "" if none
WordAfter(words, kw) ==
    Let({i \in 1..(Len(words) - 1) : Upper[words[i]] = kw},
        LAMBDA at : IF at = {} THEN "" ELSE words[Least[at] + 1])

\* the words of a statement without the IF [NOT] EXISTS of DROP and CREATE
NoIfExists(words) == SelectSeq(words, LAMBDA w : Upper[w] \notin {"IF", "NOT", "EXISTS"})

\* the relation a statement reads or writes, as the store resolves it from the text
TargetTable[text \in STRING] ==
    Let2(Split[Unterminated[text]], StatementKind[text],
         LAMBDA words, kind :
            CASE kind \in {"SELECT", "DELETE"} -> IdentOf[WordAfter(words, "FROM")]
              [] kind = "INSERT" -> IdentOf[WordAfter(words, "INTO")]
              [] kind = "UPDATE" -> IdentOf[WordAfter(words, "UPDATE")]
              [] kind \in {"DROP", "CREATE", "TRUNCATE", "ALTER"} ->
                    IdentOf[WordAfter(NoIfExists(words), "TABLE")]
              [] OTHER -> "")

\* the first index >= i of character c, Len(s)+1 if none
FindChar[s \in STRING, i \in Int, c \in STRING] ==
    FirstStop[s, {j \in i..Len(s) : Ch(s, j) = c}]

\* s.split(c) for a one-character c
SplitOnFrom[s \in STRING, i \in Int, c \in STRING] ==
    Let(FindChar[s, i, c],
        LAMBDA j : IF j > Len(s) THEN <<SubSeq(s, i, Len(s))>>
                   ELSE <<SubSeq(s, i, j - 1)>> \o SplitOnFrom[s, j + 1, c])

SplitOn[s \in STRING, c \in STRING] == SplitOnFrom[s, 1, c]

\* re.match(r'INSERT\s+INTO\s+(\w+)\s*\(([^)]+)\)\s*VALUES\s*\(([^)]+)\)',
\*          query, re.IGNORECASE): the groups, or matched = FALSE
NoInsertMatch == [matched |-> FALSE, table_name |-> "", columns |-> "", values |-> ""]

\* \(([^)]+)\) matched in u at index f: the index of the closing parenthesis, 0 if none
GroupEnd[u \in STRING, f \in Int] ==
    Let(FindChar[u, f + 1, ")"],
        LAMBDA g : IF MatchAt[u, f, "("] /\ g > f + 1 /\ g <= Len(u) THEN g ELSE 0)

\* \s*VALUES\s*\(([^)]+)\) matched in u after the column list that closes at index g
InsertValues[query \in STRING, u \in STRING, d \in Int, e \in Int, f \in Int, g \in Int] ==
    Let(SkipSpace[u, g + 1],
        LAMBDA h :
            IF ~MatchAt[u, h, "VALUES"] THEN NoInsertMatch
            ELSE Let(SkipSpace[u, h + Len("VALUES")],
                     LAMBDA k :
                        Let(GroupEnd[u, k],
                            LAMBDA m :
                                IF m = 0 THEN NoInsertMatch
                                ELSE [matched |-> TRUE,
                                      table_name |-> SubSeq(query, d, e - 1),
                                      columns |-> SubSeq(query, f + 1, g - 1),
                                      values |-> SubSeq(query, k + 1, m - 1)])))

\* (\w+)\s*\(([^)]+)\) matched in u at index d, then the VALUES part
InsertTable[query \in STRING, u \in STRING, d \in Int] ==
    Let(SkipWord[u, d],
        LAMBDA e :
            IF ~(e > d) THEN NoInsertMatch
            ELSE Let(SkipSpace[u, e],
                     LAMBDA f :
                        Let(GroupEnd[u, f],
                            LAMBDA g : IF g = 0 THEN NoInsertMatch
                                       ELSE InsertValues[query, u, d, e, f, g])))

\* INSERT\s+INTO\s+ matched at the start of u, then the table and the lists
InsertMatchUpper[query \in STRING, u \in STRING] ==
    Let(SkipSpace[u, 1 + Len("INSERT")],
        LAMBDA b :
            IF ~(MatchAt[u, 1, "INSERT"] /\ b > 1 + Len("INSERT") /\ MatchAt[u, b, "INTO"])
            THEN NoInsertMatch
            ELSE Let(SkipSpace[u, b + Len("INTO")],
                     LAMBDA d : IF d > b + Len("INTO") THEN InsertTable[query, u, d]
                                ELSE NoInsertMatch))

InsertMatch[query \in STRING] == InsertMatchUpper[query, Upper[query]]

\* a value literal without its quotes
Unquote[v \in STRING] ==
    Let(Strip[v],
        LAMBDA t : IF Len(t) >= 2 /\ StartsWith[t, "'"] /\ EndsWith[t, "'"]
                   THEN SubSeq(t, 2, Len(t) - 1) ELSE t)

\* a TIMESTAMP value: the reading n of a clock
Timestamp(n) == "2024-01-0" \o ToString(n)

\* the value of an expression of a value list: NOW() is the store's clock, any
\* other is read as a literal
Evaluated(v, clock) ==
    IF Upper[Strip[v]] = "NOW()" THEN Timestamp(clock) ELSE Unquote[v]

\* %s placeholders of a value list bound to params, in order; the other values
\* evaluated by the store
BindParams(vals, params, clock) ==
    [i \in 1..Len(vals) |->
        Let(Cardinality({j \in 1..i : Strip[vals[j]] = "%s"}),
            LAMBDA earlier : IF Strip[vals[i]] = "%s" /\ earlier <= Len(params)
                             THEN params[earlier] ELSE Evaluated(vals[i], clock))]

\* the condition after the first WHERE of statement t, given the indexes at of that word
ConditionAt(t, at) == Strip[SubSeq(t, Least[at] + Len("WHERE"), Len(t))]

\* the rows among the row ids of a table that a statement's WHERE clause selects:
\* all of them when it has none
RowsSelected(rows, t, at) ==
    IF at = {} THEN rows
    ELSE Let(ConditionAt(t, at),
             LAMBDA cond :
                IF cond = "1 = 1" THEN rows
                ELSE IF StartsWith[cond, "id = "]
                THEN Let(Unquote[SubSeq(cond, 1 + Len("id = "), Len(cond))],
                         LAMBDA id : {r \in rows : r.id = id})
                ELSE {})

RowsWhere(rows, text) ==
    Let2(Unterminated[text], Upper[Unterminated[text]],
         LAMBDA t, u : RowsSelected(rows, t, {i \in 1..Len(u) : OneWordAt[u, i, "WHERE"]}))

\* cursor.execute(text, params) in the store, on the registry reg and the tenant
\* tables tabs: ok = FALSE is a store error (the statement changed nothing)
PgResult(ok, reg, tabs, rows, rowcount) ==
    [ok |-> ok, reg |-> reg, tabs |-> tabs, rows |-> rows, rowcount |-> rowcount]

PgError(reg, tabs) == PgResult(FALSE, reg, tabs, {}, 0)

\* SELECT
PgSelect(reg, tabs, t, text) ==
    IF t = "" THEN PgResult(TRUE, reg, tabs, {"1"}, 1)
    ELSE IF t \in DOMAIN tabs
    THEN Let(RowsWhere(tabs[t].rows, text),
             LAMBDA hit : PgResult(TRUE, reg, tabs, hit, Cardinality(hit)))
    ELSE IF t = "user_databases"
    THEN PgResult(TRUE, reg, tabs, {r.db_name : r \in reg}, Cardinality(reg))
    ELSE PgError(reg, tabs)

\* DELETE
PgDelete(reg, tabs, t, text) ==
    IF t \in DOMAIN tabs
    THEN Let(RowsWhere(tabs[t].rows, text),
             LAMBDA hit : PgResult(TRUE, reg, [tabs EXCEPT ![t].rows = @ \ hit], {},
                                   Cardinality(hit)))
    ELSE IF t = "user_databases" /\ RowsWhere({"all"}, text) # {}
    THEN PgResult(TRUE, {}, tabs, {}, Cardinality(reg))
    ELSE PgError(reg, tabs)

\* the assignments of UPDATE ... SET c1 = v1, c2 = v2 [WHERE ...]: the pairs
\* <<column, value>> in order
Assignments(text, clock) ==
    Let2(Unterminated[text], Upper[Unterminated[text]],
         LAMBDA t, u :
            Let2({i \in 1..Len(u) : OneWordAt[u, i, "SET"]},
                 {i \in 1..Len(u) : OneWordAt[u, i, "WHERE"]},
                 LAMBDA set, where :
                    IF set = {} THEN <<>>
                    ELSE Let(SplitOn[SubSeq(t, Least[set] + Len("SET"),
                                            IF where = {} THEN Len(t) ELSE Least[where] - 1),
                                     ","],
                             LAMBDA parts :
                                [i \in 1..Len(parts) |->
                                    Let(FindChar[parts[i], 1, "="],
                                        LAMBDA eq :
                                            <<IdentOf[Strip[SubSeq(parts[i], 1, eq - 1)]],
                                              Evaluated(SubSeq(parts[i], eq + 1,
                                                               Len(parts[i])), clock)>>)])))

\* the value a list of assignments leaves in column c of a row that held old
Assigned(sets, c, old) ==
    Let({i \in 1..Len(sets) : sets[i][1] = c},
        LAMBDA at : IF at = {} THEN old ELSE sets[Greatest[at]][2])

\* UPDATE: the rows the WHERE clause selects get the assigned values; of the
\* columns of a row only id and created_at are kept
PgUpdate(reg, tabs, t, text, clock) ==
    IF t \notin DOMAIN tabs THEN PgError(reg, tabs)
    ELSE Let2(Assignments(text, clock), RowsWhere(tabs[t].rows, text),
              LAMBDA sets, hit :
                Let((tabs[t].rows \ hit)
                        \cup {[id |-> Assigned(sets, "id", r.id),
                               created_at |-> Assigned(sets, "created_at", r.created_at)]
                                    : r \in hit},
                    LAMBDA rows :
                        IF /\ sets # <<>>
                           /\ \A i \in 1..Len(sets) :
                                    \E j \in 1..Len(tabs[t].columns) :
                                        tabs[t].columns[j].name = sets[i][1]
                           /\ Cardinality({r.id : r \in rows}) = Cardinality(tabs[t].rows)
                        THEN PgResult(TRUE, reg, [tabs EXCEPT ![t].rows = rows], {},
                                      Cardinality(hit))
                        ELSE PgError(reg, tabs)))

\* the index of the parenthesis that closes the group open at index i, 0 if none:
\* parentheses nest, and a quoted literal is skipped
CloseOf[s \in STRING, i \in Int, depth \in Int, quoted \in BOOLEAN] ==
    IF i > Len(s) THEN 0
    ELSE IF quoted THEN CloseOf[s, i + 1, depth, Ch(s, i) # "'"]
    ELSE IF Ch(s, i) = "'" THEN CloseOf[s, i + 1, depth, TRUE]
    ELSE IF Ch(s, i) = "(" THEN CloseOf[s, i + 1, depth + 1, FALSE]
    ELSE IF Ch(s, i) = ")"
    THEN (IF depth = 0 THEN i ELSE CloseOf[s, i + 1, depth - 1, FALSE])
    ELSE CloseOf[s, i + 1, depth, FALSE]

\* the expressions of a list: s cut at the commas outside parentheses and literals
Expressions[s \in STRING, i \in Int, start \in Int, depth \in Int, quoted \in BOOLEAN] ==
    IF i > Len(s) THEN <<SubSeq(s, start, Len(s))>>
    ELSE IF quoted THEN Expressions[s, i + 1, start, depth, Ch(s, i) # "'"]
    ELSE IF Ch(s, i) = "'" THEN Expressions[s, i + 1, start, depth, TRUE]
    ELSE IF Ch(s, i) = "(" THEN Expressions[s, i + 1, start, depth + 1, FALSE]
    ELSE IF Ch(s, i) = ")" THEN Expressions[s, i + 1, start, depth - 1, FALSE]
    ELSE IF Ch(s, i) = "," /\ depth = 0
    THEN <<SubSeq(s, start, i - 1)>> \o Expressions[s, i + 1, i + 1, 0, FALSE]
    ELSE Expressions[s, i + 1, start, depth, FALSE]

\* the value tuples (v, ...), (w, ...) that start with the parenthesis at index v,
\* each the sequence of its expressions; a RETURNING clause may follow them.
\* <<>> if the text is not of that form
Tuples[s \in STRING, v \in Int] ==
    Let(CloseOf[s, v + 1, 0, FALSE],
        LAMBDA e :
            IF e = 0 \/ e = v + 1 THEN <<>>
            ELSE Let2(<<Expressions[SubSeq(s, v + 1, e - 1), 1, 1, 0, FALSE]>>,
                      SkipSpace[s, e + 1],
                      LAMBDA first, n :
                        IF n > Len(s) \/ MatchAt[Upper[s], n, "RETURNING"] THEN first
                        ELSE IF Ch(s, n) = "," /\ Ch(s, SkipSpace[s, n + 1]) = "("
                        THEN Let(Tuples[s, SkipSpace[s, n + 1]],
                                 LAMBDA more : IF more = <<>> THEN <<>> ELSE first \o more)
                        ELSE <<>>))

\* no INSERT the store accepts
NoInsert == [named |-> FALSE, columns |-> "", tuples |-> <<>>]

\* INSERT INTO <table> (<columns>) VALUES <tuples> after the column list that
\* opens at index o
InsertNamed(text, o) ==
    Let(FindChar[text, o + 1, ")"],
        LAMBDA c :
            Let(SkipSpace[text, c + 1],
                LAMBDA k :
                    IF c <= Len(text) /\ MatchAt[Upper[text], k, "VALUES"]
                       /\ Ch(text, SkipSpace[text, k + Len("VALUES")]) = "("
                    THEN [named |-> TRUE, columns |-> SubSeq(text, o + 1, c - 1),
                          tuples |-> Tuples[text, SkipSpace[text, k + Len("VALUES")]]]
                    ELSE NoInsert))

\* an INSERT statement as the store reads it: with a column list or without one
\* (the values are then those of the table's columns in order)
InsertStatement(text) ==
    Let(FindChar[text, 1, "("],
        LAMBDA o :
            IF o > Len(text) THEN NoInsert
            ELSE Let(Split[SubSeq(text, 1, o - 1)],
                     LAMBDA head :
                        IF ~(/\ Len(head) \in {3, 4}
                             /\ Upper[head[1]] = "INSERT"
                             /\ Upper[head[2]] = "INTO"
                             /\ IsIdentifier[head[3]])
                        THEN NoInsert
                        ELSE IF Len(head) = 3 THEN InsertNamed(text, o)
                        ELSE IF Upper[head[4]] = "VALUES"
                        THEN [named |-> FALSE, columns |-> "", tuples |-> Tuples[text, o]]
                        ELSE NoInsert))

\* the column names of an INSERT's column list
ColumnsOf(m) ==
    Let(SplitOn[m.columns, ","], LAMBDA parts : [i \in 1..Len(parts) |-> IdentOf[Strip[parts[i]]]])

\* the column list of an INSERT as written: each entry one unquoted identifier
ColumnListWellFormed(m) ==
    Let(SplitOn[m.columns, ","], LAMBDA parts : \A i \in 1..Len(parts) : IsIdentifier[Strip[parts[i]]])

\* the value of column c in an INSERT of the values vals into the columns cols;
\* a column the INSERT does not name gets its default
ValueOf(cols, vals, c, default) ==
    Let({i \in 1..Len(cols) : cols[i] = c},
        LAMBDA at : IF at = {} THEN default ELSE vals[Least[at]])

\* INSERT of the values vals into the columns cols of table t: every column is a
\* column of the table and named once, every column that needs a value has one, and
\* the id is not the id of a row of the table (id is the primary key); created_at
\* defaults to NOW().  Of the columns of the row only id and created_at are kept
PgInsertRow(reg, tabs, t, cols, vals, clock) ==
    IF /\ Len(cols) = Len(vals)
       /\ \A i \in 1..Len(cols) :
                /\ cols[i] \in {tabs[t].columns[j].name : j \in 1..Len(tabs[t].columns)}
                /\ \A j \in 1..(i - 1) : cols[j] # cols[i]
       /\ \A j \in 1..Len(tabs[t].columns) :
                tabs[t].columns[j].required
                    => \E i \in 1..Len(cols) : cols[i] = tabs[t].columns[j].name
       /\ ValueOf(cols, vals, "id", "") \notin {r.id : r \in tabs[t].rows}
    THEN PgResult(TRUE, reg,
                  [tabs EXCEPT ![t].rows =
                        @ \cup {[id |-> ValueOf(cols, vals, "id", ""),
                                 created_at |-> ValueOf(cols, vals, "created_at",
                                                        Timestamp(clock))]}],
                  {}, 1)
    ELSE PgError(reg, tabs)

\* the columns a value tuple of an INSERT fills: those of the column list, or as
\* many of the table's columns as the tuple has values
ColumnsFilled(tabs, t, ins, tuple) ==
    IF ins.named THEN ColumnsOf(ins)
    ELSE [i \in 1..Len(tuple) |->
            IF i <= Len(tabs[t].columns) THEN tabs[t].columns[i].name ELSE ""]

\* the rows of the value tuples from the i-th on, inserted one after the other into
\* the outcome so far; one row the store refuses fails the statement.  The
\* placeholders of each tuple are bound to params from its first on (the code
\* binds parameters to statements of one tuple only)
RECURSIVE PgInsertRows(_, _, _, _, _, _, _, _)
PgInsertRows(reg, tabs, t, ins, params, clock, i, sofar) ==
    IF i > Len(ins.tuples) \/ ~sofar.ok THEN sofar
    ELSE Let(PgInsertRow(reg, sofar.tabs, t, ColumnsFilled(tabs, t, ins, ins.tuples[i]),
                         BindParams(ins.tuples[i], params, clock), clock),
             LAMBDA row :
                PgInsertRows(reg, tabs, t, ins, params, clock, i + 1,
                             [row EXCEPT !.rowcount = @ + sofar.rowcount]))

\* INSERT
PgInsert(reg, tabs, t, ins, params, clock) ==
    IF \/ t \notin DOMAIN tabs
       \/ ins.tuples = <<>>
       \/ (ins.named /\ ~ColumnListWellFormed(ins))
    THEN PgError(reg, tabs)
    ELSE Let(PgInsertRows(reg, tabs, t, ins, params, clock, 1,
                          PgResult(TRUE, reg, tabs, {}, 0)),
             LAMBDA done : IF done.ok THEN done ELSE PgError(reg, tabs))

\* key words the store does not accept as a column name
ReservedWords == {"select", "table", "order", "user", "group", "from", "where"}

\* the column definitions of a CREATE TABLE statement: the words of each definition
\* between the parentheses, as written
ColumnWords(text) ==
    Let2(FindChar[text, 1, "("], Greatest[{0} \cup {i \in 1..Len(text) : Ch(text, i) = ")"}],
         LAMBDA open, close :
            IF open >= close THEN <<>>
            ELSE Let(SplitOn[SubSeq(text, open + 1, close - 1), ","],
                     LAMBDA defs : [i \in 1..Len(defs) |-> Split[defs[i]]]))

\* the column names of a CREATE TABLE statement: the first word of each column
\* definition, as written
ColumnNames(text) ==
    Let(ColumnWords(text),
        LAMBDA defs : [i \in 1..Len(defs) |-> IF defs[i] = <<>> THEN "" ELSE defs[i][1]])

\* the store accepts the column names: each an identifier that is not a key word,
\* no two the same once folded
ColumnsAccepted(names) ==
    /\ names # <<>>
    /\ \A i \in 1..Len(names) :
            /\ IsIdentifier[names[i]]
            /\ Lower[names[i]] \notin ReservedWords
            /\ \A j \in 1..(i - 1) : IdentOf[names[j]] # IdentOf[names[i]]

\* a column of a table as a column definition creates it: its name folded, and
\* whether an INSERT must give it a value (NOT NULL or PRIMARY KEY, no DEFAULT)
Column(words) ==
    Let({Upper[words[i]] : i \in 1..Len(words)},
        LAMBDA upper :
            [name |-> IdentOf[words[1]],
             required |-> ("NOT" \in upper \/ "PRIMARY" \in upper) /\ "DEFAULT" \notin upper])

\* CREATE TABLE
PgCreate(reg, tabs, t, text) ==
    IF /\ IsIdentifier[t]
       /\ t \notin DOMAIN tabs \cup SystemTables
       /\ Let(ColumnNames(text), ColumnsAccepted)
    THEN Let(ColumnWords(text),
             LAMBDA defs :
                PgResult(TRUE, reg,
                         [n \in DOMAIN tabs \cup {t} |->
                            IF n = t
                            THEN [columns |-> [i \in 1..Len(defs) |-> Column(defs[i])],
                                  rows |-> {}]
                            ELSE tabs[n]],
                         {}, 0))
    ELSE PgError(reg, tabs)

\* DROP TABLE [IF EXISTS]
PgDrop(reg, tabs, t, text) ==
    IF t \in DOMAIN tabs
    THEN PgResult(TRUE, reg, [n \in DOMAIN tabs \ {t} |-> tabs[n]], {}, 0)
    ELSE IF IsIdentifier[t] /\ t \notin SystemTables /\ Contains[Upper[text], "IF EXISTS"]
    THEN PgResult(TRUE, reg, tabs, {}, 0)
    ELSE PgError(reg, tabs)

PgExecute(reg, tabs, text, params, clock) ==
    Let2(StatementKind[text], TargetTable[text],
         LAMBDA kind, t :
            CASE kind = "SELECT" -> PgSelect(reg, tabs, t, text)
              [] kind = "DELETE" -> PgDelete(reg, tabs, t, text)
              [] kind = "UPDATE" -> PgUpdate(reg, tabs, t, text, clock)
              [] kind = "INSERT" ->
                    Let(InsertStatement(Unterminated[text]),
                        LAMBDA ins : PgInsert(reg, tabs, t, ins, params, clock))
              [] kind = "CREATE" -> PgCreate(reg, tabs, t, text)
              [] kind = "DROP" -> PgDrop(reg, tabs, t, text)
              [] OTHER -> PgError(reg, tabs))

-----------------------------------------------------------------------------
(* DatabaseManager (backend/app/database.py).  A method is an operator on  *)
(* the store and the clocks st = [reg, tabs, uuid, now, utcnow]; it yields *)
(* st after the call, the value returned (ret), the exception raised (exc, *)
(* "" if none) and the events of the call in order (ev).                   *)

\* str(uuid.uuid4())
UuidStr(n) == "u-" \o ToString(n)

EvGetConn == [kind |-> "getconn", sql |-> ""]
EvPutConn == [kind |-> "putconn", sql |-> ""]
EvCommit == [kind |-> "commit", sql |-> ""]
EvRollback == [kind |-> "rollback", sql |-> ""]
EvExecute(text) == [kind |-> "execute", sql |-> text]
EvValidate(text) == [kind |-> "validate", sql |-> text]
EvCall(text) == [kind |-> "execute_query", sql |-> text]

Result(st, ret, exc, ev) == [st |-> st, ret |-> ret, exc |-> exc, ev |-> ev]

ErrNotFound == "Database not found or access denied"
ErrStore == "psycopg2.Error"

LookupSql ==
    "SELECT id, user_id, db_name, display_name, schema_json, created_at FROM user_databases WHERE id = %s AND user_id = %s"
RegisterSql ==
    "INSERT INTO user_databases (id, user_id, db_name, display_name, schema_json, created_at) VALUES (%s, %s, %s, %s, %s, %s)"
UnregisterSql == "DELETE FROM user_databases WHERE id = %s AND user_id = %s"

\* a field of a schema: a dict with the key "name" and, when given, the keys
\* "type" and "optional"
Field(name, type, optional) == [name |-> name, type |-> type, optional |-> optional]

\* the schema dict: "database_name" and the list "fields"
Schema(database_name, fields) == [database_name |-> database_name, fields |-> fields]

\* JsonStr folding the text to lower case
JsonStrFolded(s) == "\"" \o Lower[s] \o "\""

\* json.dumps writes a text, modelled as the sequence of its tokens: a str is
\* written between double quotes, a bool as true or false
JsonStr(s) == "\"" \o s \o "\""
JsonBool(b) == IF b THEN "true" ELSE "false"

\* json.dumps of one field
JsonField(f) ==
    <<"{", JsonStr("name"), ":", JsonStr(f.name)>>
    \o (IF f.type = None THEN <<>>
        ELSE <<",", JsonStr("type"), ":", JsonStr(The(f.type))>>)
    \o (IF f.optional = None THEN <<>>
        ELSE <<",", JsonStr("optional"), ":", JsonBool(The(f.optional))>>)
    \o <<"}">>

\* json.dumps of the list of fields, without its brackets
RECURSIVE JsonFields(_)
JsonFields(fields) ==
    IF fields = <<>> THEN <<>>
    ELSE IF Len(fields) = 1 THEN JsonField(fields[1])
    ELSE JsonField(fields[1]) \o <<",">> \o Let(Tail(fields), JsonFields)

\* json.dumps(schema)
json_dumps(schema) ==
    <<"{", JsonStr("database_name"), ":", JsonStr(schema.database_name), ",",
      JsonStr("fields"), ":", "[">>
    \o JsonFields(schema.fields) \o <<"]", "}">>

\* a str token without its double quotes
JsonUnquote(tok) == SubSeq(tok, 2, Len(tok) - 1)

\* the value token of key in the object that spans tokens i..j, None if the key
\* is absent: keys stand at i+1, i+5, ...
JsonValue(toks, i, j, key) ==
    Let({k \in (i + 1)..(j - 3) :
            (k - i) % 4 = 1 /\ toks[k] = JsonStr(key) /\ toks[k + 1] = ":"},
        LAMBDA at : IF at = {} THEN None ELSE Some(toks[Least[at] + 2]))

\* json.loads of the field object that opens at token i
JsonLoadField(toks, i) ==
    Let(Least[{j \in i..Len(toks) : toks[j] = "}"}],
        LAMBDA j :
            Field(JsonUnquote(The(JsonValue(toks, i, j, "name"))),
                  {JsonUnquote(v) : v \in JsonValue(toks, i, j, "type")},
                  {v = "true" : v \in JsonValue(toks, i, j, "optional")}))

\* the members of a set of indexes in increasing order
RECURSIVE Ascending(_)
Ascending(S) ==
    IF S = {} THEN <<>>
    ELSE Let(Least[S], LAMBDA m : <<m>> \o Ascending(S \ {m}))

\* json.loads(schema_json)
json_loads(toks) ==
    Let(Ascending({i \in 2..Len(toks) : toks[i] = "{"}),
        LAMBDA opens :
            Schema(JsonUnquote(The(JsonValue(toks, 1, Len(toks), "database_name"))),
                   [n \in 1..Len(opens) |-> JsonLoadField(toks, opens[n])]))

\* the dict get_database_by_id builds from a row of user_databases
Descriptor(row) ==
    [id |-> row.id, user_id |-> row.user_id, db_name |-> row.db_name,
     schema |-> json_loads(row.schema_json)]

\* RegistryRows with the condition on user_id left out
RegistryRowsOfAnyTenant(reg, db_id, user_id) == {r \in reg : r.id = db_id}

\* the rows of user_databases that WHERE id = %s AND user_id = %s selects
RegistryRows(reg, db_id, user_id) == {r \in reg : r.id = db_id /\ r.user_id = user_id}

\* get_database_by_id selecting by id alone
get_database_by_id_unfiltered(st, db_id, user_id) ==
    Result(st, {Descriptor(r) : r \in {r \in st.reg : r.id = db_id}}, "",
           <<EvGetConn, EvExecute(LookupSql), EvPutConn>>)

\* get_database_by_id(db_id, user_id): the descriptor, or None
get_database_by_id(st, db_id, user_id) ==
    Result(st, {Descriptor(r) : r \in RegistryRows(st.reg, db_id, user_id)}, "",
           <<EvGetConn, EvExecute(LookupSql), EvPutConn>>)

\* safe_table_name keeping the last 63 characters where the code keeps the first
safe_table_name_keeping_tail(user_id, db_name) ==
    Let("user_" \o Replace[user_id, "-", "_"] \o "_"
            \o Replace[Replace[Lower[db_name], " ", "_"], "-", "_"],
        LAMBDA name : IF Len(name) > IdentifierLimit
                      THEN SubSeq(name, Len(name) - IdentifierLimit + 1, Len(name))
                      ELSE name)

\* f"user_{user_id.replace('-', '_')}_{db_name.lower().replace(' ', '_').replace('-', '_')}"
\* cut to 63 characters
safe_table_name(user_id, db_name) ==
    Let("user_" \o Replace[user_id, "-", "_"] \o "_"
            \o Replace[Replace[Lower[db_name], " ", "_"], "-", "_"],
        LAMBDA name : IF Len(name) > IdentifierLimit
                      THEN SubSeq(name, 1, IdentifierLimit) ELSE name)

\* ", ".join(words)
RECURSIVE Join(_)
Join(words) ==
    IF words = <<>> THEN ""
    ELSE IF Len(words) = 1 THEN words[1]
    ELSE words[1] \o ", " \o Let(Tail(words), Join)

\* the PostgreSQL type a field type maps to
PgType(field_type) ==
    Let(Upper[field_type],
        LAMBDA t : IF t \in {"INTEGER", "REAL", "DATE"} THEN t ELSE "TEXT")

\* the column definition of a field
ColDef(f) ==
    Replace[Lower[f.name], " ", "_"] \o " "
    \o PgType(IF f.type = None THEN "TEXT" ELSE The(f.type))
    \o (IF f.optional = None \/ ~The(f.optional) THEN " NOT NULL" ELSE "")

\* f"CREATE TABLE {safe_table_name} ({', '.join(columns)})", columns being id, the
\* fields in order, created_at
CreateTableSql(name, fields) ==
    "CREATE TABLE " \o name \o " ("
    \o Join(<<"id TEXT PRIMARY KEY">> \o [i \in 1..Len(fields) |-> ColDef(fields[i])]
            \o <<"created_at TIMESTAMP NOT NULL DEFAULT NOW()">>)
    \o ")"

\* Created writing the registry row whether or not CREATE TABLE succeeded
CreatedRegardless(st, user_id, db_id, name, schema, create_sql, made) ==
    Result([st EXCEPT
                !.reg = made.reg \cup {[id |-> db_id, user_id |-> user_id, db_name |-> name,
                                        schema_json |->
                                            json_dumps(Schema(name, schema.fields))]},
                !.tabs = made.tabs, !.uuid = @ + 1],
           Some(db_id), "",
           <<EvGetConn, EvExecute(create_sql), EvExecute(RegisterSql), EvCommit, EvPutConn>>)

\* the outcome of create_user_database once CREATE TABLE ran with result made
Created(st, user_id, db_id, name, schema, create_sql, made) ==
    IF made.ok
    THEN Result([st EXCEPT
                    !.reg = made.reg \cup {[id |-> db_id, user_id |-> user_id,
                                             db_name |-> name,
                                             schema_json |->
                                                json_dumps(Schema(name, schema.fields))]},
                    !.tabs = made.tabs, !.uuid = @ + 1],
                Some(db_id), "",
                <<EvGetConn, EvExecute(create_sql), EvExecute(RegisterSql),
                  EvCommit, EvPutConn>>)
    ELSE Result([st EXCEPT !.uuid = @ + 1], None, ErrStore,
                <<EvGetConn, EvExecute(create_sql), EvRollback, EvPutConn>>)

\* create_user_database(user_id, db_name, display_name, schema) -> db_id
create_user_database(st, user_id, db_name, schema) ==
    Let(safe_table_name(user_id, db_name),
        LAMBDA name :
            Let(CreateTableSql(name, schema.fields),
                LAMBDA create_sql :
                    Let(PgExecute(st.reg, st.tabs, create_sql, <<>>, st.now),
                        LAMBDA made : Created(st, user_id, UuidStr(st.uuid), name, schema,
                                              create_sql, made))))

\* Dropped removing every registry row of the tenant
DroppedWithTenant(st, db_id, user_id, found, dropSql, dropped) ==
    Result([st EXCEPT !.tabs = dropped.tabs,
                      !.reg = {row \in st.reg : row.user_id # user_id}],
           TRUE, "",
           found.ev \o <<EvGetConn, EvExecute(dropSql),
                         EvExecute(UnregisterSql), EvCommit, EvPutConn>>)

\* the outcome of delete_database once DROP TABLE ran with result dropped
Dropped(st, db_id, user_id, found, dropSql, dropped) ==
    IF dropped.ok
    THEN Result([st EXCEPT !.tabs = dropped.tabs,
                           !.reg = st.reg \ RegistryRows(st.reg, db_id, user_id)],
                TRUE, "",
                found.ev \o <<EvGetConn, EvExecute(dropSql),
                              EvExecute(UnregisterSql), EvCommit, EvPutConn>>)
    ELSE Result(st, FALSE, ErrStore,
                found.ev \o <<EvGetConn, EvExecute(dropSql), EvRollback, EvPutConn>>)

\* delete_database after its lookup found the descriptor: the transaction that
\* drops the table and removes the registry row
DropAndUnregister(st, db_id, user_id, found) ==
    Let("DROP TABLE IF EXISTS " \o The(found.ret).db_name,
        LAMBDA dropSql :
            Let(PgExecute(st.reg, st.tabs, dropSql, <<>>, st.now),
                LAMBDA dropped : Dropped(st, db_id, user_id, found, dropSql, dropped)))

\* delete_database(db_id, user_id) -> bool
delete_database(st, db_id, user_id) ==
    Let(get_database_by_id(st, db_id, user_id),
        LAMBDA found :
            IF found.ret = None
            THEN Result(st, FALSE, "", found.ev)
            ELSE DropAndUnregister(st, db_id, user_id, found))

\* execute_query's test for the INSERT it rewrites
IsRewritten(query) == StartsWith[Upper[Strip[query]], "INSERT"] /\ InsertMatch[query].matched

\* the statement execute_query sends: an INSERT the regular expression matches is
\* rebuilt with id in front and created_at at the end
RewriteInsert(query, record_id) ==
    Let(InsertMatch[query],
        LAMBDA m :
            IF StartsWith[Upper[Strip[query]], "INSERT"] /\ m.matched
            THEN "INSERT INTO " \o m.table_name \o " (id, " \o m.columns \o ", created_at)"
                 \o " VALUES ('" \o record_id \o "', " \o m.values \o ", NOW())"
            ELSE query)

\* Executed committing where execute_query rolls back
ExecutedCommittingFailure(st, found, sent, uuid2, run) ==
    IF StartsWith[Upper[Strip[sent]], "SELECT"]
    THEN Result([st EXCEPT !.uuid = uuid2], run.rows, "",
                found.ev \o <<EvGetConn, EvExecute(sent), EvPutConn>>)
    ELSE Result([st EXCEPT !.reg = run.reg, !.tabs = run.tabs, !.uuid = uuid2],
                {run.rowcount}, "",
                found.ev \o <<EvGetConn, EvExecute(sent), EvCommit, EvPutConn>>)

\* the outcome of execute_query once the statement sent ran with result run;
\* uuid2 is the next fresh identifier after the call
Executed(st, found, sent, uuid2, run) ==
    IF ~run.ok
    THEN Result([st EXCEPT !.uuid = uuid2], {}, ErrStore,
                found.ev \o <<EvGetConn, EvExecute(sent), EvRollback, EvPutConn>>)
    ELSE IF StartsWith[Upper[Strip[sent]], "SELECT"]
    THEN Result([st EXCEPT !.uuid = uuid2], run.rows, "",
                found.ev \o <<EvGetConn, EvExecute(sent), EvPutConn>>)
    ELSE Result([st EXCEPT !.reg = run.reg, !.tabs = run.tabs, !.uuid = uuid2],
                {run.rowcount}, "",
                found.ev \o <<EvGetConn, EvExecute(sent), EvCommit, EvPutConn>>)

\* execute_query(db_id, user_id, query, params) -> rows | [{"affected_rows": n}]
execute_query(st, db_id, user_id, query, params) ==
    Let(get_database_by_id(st, db_id, user_id),
        LAMBDA found :
            IF found.ret = None
            THEN Result(st, {}, ErrNotFound, found.ev)
            ELSE Let2(RewriteInsert(query, UuidStr(st.uuid)),
                      IF IsRewritten(query) THEN st.uuid + 1 ELSE st.uuid,
                      LAMBDA sent, uuid2 :
                        Let(PgExecute(st.reg, st.tabs, sent, params, st.now),
                            LAMBDA run : Executed(st, found, sent, uuid2, run))))

\* a Python dict is a sequence of <<key, value>> pairs in insertion order;
\* d[k] = v replaces the value of an existing key in place, else appends
DictSet(d, k, v) ==
    IF \E i \in 1..Len(d) : d[i][1] = k
    THEN [i \in 1..Len(d) |-> IF d[i][1] = k THEN <<k, v>> ELSE d[i]]
    ELSE Append(d, <<k, v>>)

\* {**a, **b}
RECURSIVE DictUpdate(_, _)
DictUpdate(a, b) ==
    IF b = <<>> THEN a
    ELSE Let2(DictSet(a, Head(b)[1], Head(b)[2]), Tail(b), DictUpdate)

\* datetime.utcnow(), bound as a parameter: the reading of the server's clock
UtcNow(st) == Timestamp(st.utcnow)

\* {"id": record_id, **data, "created_at": datetime.utcnow()}
DataWithMeta(record_id, data, utc) ==
    Let(DictUpdate(<< <<"id", record_id>> >>, data),
        LAMBDA d : DictSet(d, "created_at", utc))

\* f"INSERT INTO {table_name} ({columns}) VALUES ({placeholders})"
InsertSql(table_name, data_with_meta) ==
    "INSERT INTO " \o table_name
    \o " (" \o Join([i \in 1..Len(data_with_meta) |-> data_with_meta[i][1]])
    \o ") VALUES (" \o Join([i \in 1..Len(data_with_meta) |-> "%s"]) \o ")"

\* the outcome of insert_data once the INSERT ran with result run
Inserted(st, found, record_id, query, run) ==
    IF run.ok
    THEN Result([st EXCEPT !.reg = run.reg, !.tabs = run.tabs, !.uuid = @ + 1],
                Some(record_id), "",
                found.ev \o <<EvGetConn, EvExecute(query), EvCommit, EvPutConn>>)
    ELSE Result([st EXCEPT !.uuid = @ + 1], None, ErrStore,
                found.ev \o <<EvGetConn, EvExecute(query), EvRollback, EvPutConn>>)

\* insert_data(db_id, user_id, data) -> record_id
insert_data(st, db_id, user_id, data) ==
    Let(get_database_by_id(st, db_id, user_id),
        LAMBDA found :
            IF found.ret = None
            THEN Result(st, None, ErrNotFound, found.ev)
            ELSE Let2(DataWithMeta(UuidStr(st.uuid), data, UtcNow(st)), The(found.ret).db_name,
                      LAMBDA data_with_meta, table_name :
                        Let(InsertSql(table_name, data_with_meta),
                            LAMBDA query :
                                Let(PgExecute(st.reg, st.tabs, query,
                                              [i \in 1..Len(data_with_meta) |->
                                                    data_with_meta[i][2]], st.now),
                                    LAMBDA run : Inserted(st, found, UuidStr(st.uuid),
                                                          query, run)))))

\* get_all_data(db_id, user_id) -> rows
get_all_data(st, db_id, user_id) ==
    Let(get_database_by_id(st, db_id, user_id),
        LAMBDA found :
            IF found.ret = None
            THEN Result(st, {}, ErrNotFound, found.ev)
            ELSE Let(execute_query(st, db_id, user_id,
                                   "SELECT * FROM " \o The(found.ret).db_name
                                        \o " ORDER BY created_at DESC", <<>>),
                     LAMBDA rows : Result(rows.st, rows.ret, rows.exc, found.ev \o rows.ev)))

-----------------------------------------------------------------------------
(* The request handlers (backend/app/main.py).  A handler yields the store *)
(* after the request, the HTTP status and detail of the response, and the  *)
(* events of the request in order.                                         *)

Response(st, status, detail, ev) == [st |-> st, status |-> status, detail |-> detail, ev |-> ev]

HTTP_OK == 200
HTTP_BAD_REQUEST == 400
HTTP_NOT_FOUND == 404
HTTP_INTERNAL_SERVER_ERROR == 500

\* the response to DELETE /api/databases/{db_id} for delete_database's outcome r
DeleteResponse(r) ==
    IF r.exc # "" THEN Response(r.st, HTTP_INTERNAL_SERVER_ERROR, r.exc, r.ev)
    ELSE IF ~r.ret THEN Response(r.st, HTTP_NOT_FOUND, "Database not found", r.ev)
    ELSE Response(r.st, HTTP_OK, "Database deleted successfully", r.ev)

\* DELETE /api/databases/{db_id}
delete_database_endpoint(st, user_id, db_id) ==
    Let(delete_database(st, db_id, user_id), DeleteResponse)

\* the response to GET /api/databases/{db_id} for get_database_by_id's outcome r
DescriptorResponse(r) ==
    IF r.ret = None THEN Response(r.st, HTTP_NOT_FOUND, "Database not found", r.ev)
    ELSE Response(r.st, HTTP_OK, The(r.ret).db_name, r.ev)

\* GET /api/databases/{db_id}
get_database(st, user_id, db_id) ==
    Let(get_database_by_id(st, db_id, user_id), DescriptorResponse)

\* the mapping of a DatabaseManager exception: ValueError is 404, any other is 400
Mapped(r) ==
    IF r.exc = "" THEN Response(r.st, HTTP_OK, "", r.ev)
    ELSE IF r.exc = ErrNotFound THEN Response(r.st, HTTP_NOT_FOUND, r.exc, r.ev)
    ELSE Response(r.st, HTTP_BAD_REQUEST, r.exc, r.ev)

\* the response to GET /api/data/{db_id}: only ValueError is caught
DataResponse(r) ==
    IF r.exc \notin {"", ErrNotFound}
    THEN Response(r.st, HTTP_INTERNAL_SERVER_ERROR, r.exc, r.ev)
    ELSE Mapped(r)

\* GET /api/data/{db_id}
get_all_data_endpoint(st, user_id, db_id) ==
    Let(get_all_data(st, db_id, user_id), DataResponse)

\* POST /api/data/{db_id}/insert
insert_data_endpoint(st, user_id, db_id, data) ==
    Let(insert_data(st, db_id, user_id, data), Mapped)

\* the response to create-with-schema for create_user_database's outcome r: the new
\* descriptor is read back
CreateResponse(user_id, r) ==
    IF r.exc # "" THEN Response(r.st, HTTP_BAD_REQUEST, r.exc, r.ev)
    ELSE Let(get_database_by_id(r.st, The(r.ret), user_id),
             LAMBDA info : Response(info.st, HTTP_OK, The(r.ret), r.ev \o info.ev))

\* the fields of the request that are not disabled, without their "enabled" key
CleanedFields(fields) ==
    Let(SelectSeq(fields, LAMBDA f : f.enabled = None \/ The(f.enabled)),
        LAMBDA enabled_fields :
            [i \in 1..Len(enabled_fields) |->
                Field(enabled_fields[i].name, enabled_fields[i].type,
                      enabled_fields[i].optional)])

\* POST /api/databases/create-with-schema
create_database_with_schema(st, user_id, schema) ==
    Let(create_user_database(st, user_id, schema.database_name,
                             Schema(schema.database_name, CleanedFields(schema.fields))),
        LAMBDA r : CreateResponse(user_id, r))

\* the response once the gateway ran the validated statement: before are the events
\* of the request up to the call
Ran(before, text, r) ==
    Response(r.st, r.status, r.detail, before \o <<EvValidate(text), EvCall(text)>> \o r.ev)

\* execute_sql resolving the descriptor before it validates
execute_sql_resolving_first(st, user_id, db_id, text) ==
    Let2(get_database_by_id(st, db_id, user_id), validate_sql(text),
         LAMBDA info, v :
            IF ~v.is_valid
            THEN Response(st, HTTP_BAD_REQUEST, v.error_message,
                          info.ev \o <<EvValidate(text)>>)
            ELSE Let(execute_query(st, db_id, user_id, text, <<>>),
                     LAMBDA r : Ran(info.ev, text, Mapped(r))))

\* POST /api/execute/sql
execute_sql(st, user_id, db_id, text) ==
    Let(validate_sql(text),
        LAMBDA v :
            IF ~v.is_valid
            THEN Response(st, HTTP_BAD_REQUEST, v.error_message, <<EvValidate(text)>>)
            ELSE Let(execute_query(st, db_id, user_id, text, <<>>),
                     LAMBDA r : Ran(<<>>, text, Mapped(r))))

\* Generated with the validation left out
GeneratedUnchecked(user_id, db_id, generated, before, existing_data) ==
    Let(execute_query(existing_data.st, db_id, user_id, generated, <<>>),
        LAMBDA r : Response(r.st, Mapped(r).status, Mapped(r).detail,
                            before \o <<EvCall(generated)>> \o r.ev))

\* execute_natural_language after the sample read existing_data: the generated
\* statement is validated, then executed
Generated(user_id, db_id, generated, before, existing_data) ==
    Let(validate_sql(generated),
        LAMBDA v :
            IF ~v.is_valid
            THEN Response(existing_data.st, HTTP_BAD_REQUEST,
                          "Generated unsafe SQL: " \o v.error_message,
                          before \o <<EvValidate(generated)>>)
            ELSE Let(execute_query(existing_data.st, db_id, user_id, generated, <<>>),
                     LAMBDA r : Ran(before, generated, Mapped(r))))

\* execute_natural_language after the descriptor lookup info
Sampled(user_id, db_id, generated, info, existing_data) ==
    IF existing_data.exc = ErrNotFound
    THEN Response(existing_data.st, HTTP_NOT_FOUND, existing_data.exc,
                  info.ev \o existing_data.ev)
    ELSE IF existing_data.exc # ""
    THEN Response(existing_data.st, HTTP_BAD_REQUEST, existing_data.exc,
                  info.ev \o existing_data.ev)
    ELSE Generated(user_id, db_id, generated, info.ev \o existing_data.ev, existing_data)

\* POST /api/execute/natural: generated is the "sql" of natural_language_to_sql's
\* answer; an HTTPException raised inside the try block is caught by
\* `except Exception` and raised again as 400
execute_natural_language(st, user_id, db_id, generated) ==
    Let(get_database_by_id(st, db_id, user_id),
        LAMBDA info :
            IF info.ret = None
            THEN Response(st, HTTP_BAD_REQUEST, "Database not found", info.ev)
            ELSE Let(get_all_data(info.st, db_id, user_id),
                     LAMBDA existing_data :
                        Sampled(user_id, db_id, generated, info, existing_data)))

-----------------------------------------------------------------------------
(* The requests the model issues.                                          *)

MaxUuid == 2

UserIds == {"a-1", "b-2"}
DbNames == {"x"}

\* a field of a request: a field with, when given, the key "enabled"
RequestField(name, type, optional, enabled) ==
    [name |-> name, type |-> type, optional |-> optional, enabled |-> enabled]

\* the field lists of the create requests
RequestFields ==
    { << RequestField("a", Some("TEXT"), None, Some(TRUE)),
         RequestField("b", Some("INTEGER"), Some(TRUE), Some(FALSE)) >> }

\* descriptor ids a request may name: "u-0" is never registered
DbIds == {UuidStr(n) : n \in 0..MaxUuid}

\* relations a caller may name in statement text
NamedTables == {safe_table_name(u, n) : u \in UserIds, n \in DbNames}

\* statement text of callers and of the language model
StatementsOn(t) ==
    { "SELECT * FROM " \o t,
      "INSERT INTO " \o t \o " (a) VALUES ('v')",
      "DELETE FROM " \o t \o " WHERE 1 = 1",
      "DROP TABLE " \o t }

Statements ==
    (UNION {StatementsOn(t) : t \in NamedTables}) \cup {"SELECT * FROM user_databases"}

\* field values of the insert form
Datas == { << <<"a", "v">> >> }

Store ==
    [reg |-> user_databases, tabs |-> tables, uuid |-> next_uuid, now |-> now,
     utcnow |-> utcnow]

NoRequest ==
    [handler |-> "", user_id |-> "", db_id |-> "", sql |-> "", status |-> 0,
     detail |-> "", ev |-> <<>>, owned |-> FALSE, foreign |-> FALSE,
     db_name |-> "", changed |-> FALSE]

\* no DatabaseManager call is recorded
NoCall ==
    [method |-> "", user_id |-> "", db_id |-> "", db_name |-> "", fields |-> <<>>,
     query |-> "", ret |-> "", exc |-> "", ev |-> <<>>,
     before |-> [reg |-> {}, tabs |-> <<>>]]

\* the request as the next state records it: owned, foreign and db_name describe
\* the registry when the request arrived
Request(handler, user_id, db_id, text, res) ==
    [handler |-> handler, user_id |-> user_id, db_id |-> db_id, sql |-> text,
     status |-> res.status, detail |-> res.detail, ev |-> res.ev,
     owned |-> \E r \in user_databases : r.id = db_id /\ r.user_id = user_id,
     foreign |-> \E r \in user_databases : r.id = db_id /\ r.user_id # user_id,
     db_name |-> IF \E r \in user_databases : r.id = db_id
                 THEN (CHOOSE r \in user_databases : r.id = db_id).db_name ELSE "",
     changed |-> (res.st.reg # user_databases \/ res.st.tabs # tables)]

\* the physical name and the descriptor id of each row of a registry
Bindings(reg) == {[db_name |-> row.db_name, id |-> row.id] : row \in reg}

\* a request is handled when no response is pending
Idle == last = NoRequest

\* the store after the request and the record of the request
Respond(handler, user_id, db_id, text, res) ==
    /\ res.st.uuid <= MaxUuid + 1
    /\ user_databases' = res.st.reg
    /\ tables' = res.st.tabs
    /\ next_uuid' = res.st.uuid
    /\ last' = Request(handler, user_id, db_id, text, res)
    /\ bound' = bound \cup Bindings(res.st.reg)
    /\ UNCHANGED <<sql, verdict, call, pending, now, utcnow, lent>>

CreateDatabase ==
    /\ Idle
    /\ \E u \in UserIds, n \in DbNames, fields \in RequestFields :
            \E res \in {create_database_with_schema(Store, u, Schema(n, fields))} :
                Respond("create_database_with_schema", u, "", "", res)

DeleteDatabase ==
    /\ Idle
    /\ \E u \in UserIds, d \in DbIds :
            \E res \in {delete_database_endpoint(Store, u, d)} :
                Respond("delete_database", u, d, "", res)

GetDatabase ==
    /\ Idle
    /\ \E u \in UserIds, d \in DbIds :
            \E res \in {get_database(Store, u, d)} :
                Respond("get_database", u, d, "", res)

GetAllData ==
    /\ Idle
    /\ \E u \in UserIds, d \in DbIds :
            \E res \in {get_all_data_endpoint(Store, u, d)} :
                Respond("get_all_data", u, d, "", res)

InsertData ==
    /\ Idle
    /\ \E u \in UserIds, d \in DbIds, data \in Datas :
            \E res \in {insert_data_endpoint(Store, u, d, data)} :
                Respond("insert_data", u, d, "", res)

ExecuteSql ==
    /\ Idle
    /\ \E u \in UserIds, d \in DbIds, text \in Statements :
            \E res \in {execute_sql(Store, u, d, text)} :
                Respond("execute_sql", u, d, text, res)

ExecuteNaturalLanguage ==
    /\ Idle
    /\ \E u \in UserIds, d \in DbIds, text \in Statements :
            \E res \in {execute_natural_language(Store, u, d, text)} :
                Respond("execute_natural_language", u, d, text, res)

\* the response leaves the server and the request is over
Reply ==
    /\ last # NoRequest
    /\ last' = NoRequest
    /\ UNCHANGED <<sql, verdict, user_databases, tables, next_uuid, call, pending, bound, now, utcnow, lent>>

Init ==
    /\ sql = ""
    /\ verdict = NotValidated
    /\ user_databases = {}
    /\ tables = <<>>
    /\ next_uuid = 1
    /\ last = NoRequest
    /\ call = NoCall
    /\ pending = {}
    /\ bound = {}
    /\ now = 1
    /\ utcnow = 1
    /\ lent = 0

Next ==
    \/ CreateDatabase
    \/ DeleteDatabase
    \/ GetDatabase
    \/ GetAllData
    \/ InsertData
    \/ ExecuteSql
    \/ ExecuteNaturalLanguage
    \/ Reply

Spec == Init /\ [][Next]_vars

-----------------------------------------------------------------------------
(* The validator on its own: validate_sql applied to every text of Texts.  *)

Validate ==
    /\ verdict = NotValidated
    /\ verdict' = validate_sql(sql)
    /\ UNCHANGED <<sql, user_databases, tables, next_uuid, last, call, pending, bound, now, utcnow, lent>>

InitValidator ==
    /\ sql \in Texts
    /\ verdict = NotValidated
    /\ user_databases = {}
    /\ tables = <<>>
    /\ next_uuid = 1
    /\ last = NoRequest
    /\ call = NoCall
    /\ pending = {}
    /\ bound = {}
    /\ now = 1
    /\ utcnow = 1
    /\ lent = 0

NextValidator == Validate

SpecValidator == InitValidator /\ [][NextValidator]_vars

-----------------------------------------------------------------------------
(* DatabaseManager called directly, one call after the other: provision    *)
(* (create_user_database), lookup (get_database_by_id), remove             *)
(* (delete_database) and execute (execute_query).                          *)

\* logical names
LogicalNames == {"x", "My-Db"}

\* field lists of provision
FieldLists ==
    { << Field("Unit Price", Some("real"), Some(TRUE)), Field("a", None, None) >>,
      << Field("id", Some("TEXT"), None) >>,
      << Field("a", Some("TEXT"), None), Field("created_at", Some("DATE"), None) >> }

\* statement text passed to execute for the table t of a descriptor
QueriesOn(t) ==
    { "SELECT * FROM " \o t,
      "INSERT INTO " \o t \o " (a) VALUES ('v')",
      "insert into " \o t \o " (id, a, created_at) values ('r1', 'v', '2024-01-01')",
      "INSERT INTO " \o t \o " VALUES ('r2', 1.5, 'v', '2024-01-01')",
      "DELETE FROM " \o t \o " WHERE id = 'r2'",
      "DELETE FROM missing WHERE 1 = 1" }

\* a returned value as the record of a call keeps it: its text
Repr(value) == ToString(value)

\* the call as the next state records it, with the store it found
Call(method, user_id, db_id, db_name, fields, query, r) ==
    [method |-> method, user_id |-> user_id, db_id |-> db_id, db_name |-> db_name,
     fields |-> fields, query |-> query, ret |-> Repr(r.ret), exc |-> r.exc, ev |-> r.ev,
     before |-> [reg |-> user_databases, tabs |-> tables]]

\* a call is made when the one before has returned
Returned == call = NoCall

\* the store after the call and the record of the call
Return(method, user_id, db_id, db_name, fields, query, r) ==
    /\ r.st.uuid <= MaxUuid + 1
    /\ user_databases' = r.st.reg
    /\ tables' = r.st.tabs
    /\ next_uuid' = r.st.uuid
    /\ call' = Call(method, user_id, db_id, db_name, fields, query, r)
    /\ bound' = bound \cup Bindings(r.st.reg)
    /\ UNCHANGED <<sql, verdict, last, pending, now, utcnow, lent>>

Provision ==
    /\ Returned
    /\ \E u \in UserIds, n \in LogicalNames, fields \in FieldLists :
            \E r \in {create_user_database(Store, u, n, Schema(n, fields))} :
                Return("create_user_database", u, "", n, fields, "", r)

Lookup ==
    /\ Returned
    /\ \E u \in UserIds, d \in DbIds :
            \E r \in {get_database_by_id(Store, d, u)} :
                Return("get_database_by_id", u, d, "", <<>>, "", r)

Remove ==
    /\ Returned
    /\ \E u \in UserIds, d \in DbIds :
            \E r \in {delete_database(Store, d, u)} :
                Return("delete_database", u, d, "", <<>>, "", r)

Execute ==
    /\ Returned
    /\ \E row \in user_databases :
            \E query \in QueriesOn(row.db_name) :
                \E r \in {execute_query(Store, row.id, row.user_id, query, <<>>)} :
                    Return("execute_query", row.user_id, row.id, row.db_name, <<>>, query, r)

\* the caller has the outcome of the call
Finish ==
    /\ ~Returned
    /\ call' = NoCall
    /\ UNCHANGED <<sql, verdict, user_databases, tables, next_uuid, last, pending, bound, now, utcnow, lent>>

NextManager ==
    \/ Provision
    \/ Lookup
    \/ Remove
    \/ Execute
    \/ Finish

SpecManager == Init /\ [][NextManager]_vars

-----------------------------------------------------------------------------
(* The derivation of the physical name on its own: safe_table_name applied *)
(* to tenant identities as create_user draws them, str(uuid.uuid4()), and *)
(* to logical names made of at most MaxNameParts parts.                    *)

MaxNameParts == 2

\* tenant identities: the first two differ in their last character only, the
\* first and the third in their first character only
TenantIds ==
    {"3f2b8c1e-5d4a-4e6f-9a7b-0c1d2e3f4a5b",
     "3f2b8c1e-5d4a-4e6f-9a7b-0c1d2e3f4a5c",
     "4f2b8c1e-5d4a-4e6f-9a7b-0c1d2e3f4a5b"}

NameParts == {"x", "Inventory 2024-Q1 ", "north-west region", "north-east region", "Q&A (v2.1)"}

RECURSIVE NamesOf(_)
NamesOf(n) ==
    IF n = 0 THEN {""}
    ELSE Let(NamesOf(n - 1), LAMBDA shorter : shorter \cup {t \o p : t \in shorter, p \in NameParts})

\* the logical names: "x" to "Inventory 2024-Q1 north-west region", with which the
\* combined name is 77 characters long
LongNames == NamesOf(MaxNameParts) \ {""}

\* the derivation to make, as the record of a call not yet made
NameCall(user_id, db_name) ==
    [NoCall EXCEPT !.method = "safe_table_name", !.user_id = user_id, !.db_name = db_name]

DeriveName ==
    /\ call.method = "safe_table_name"
    /\ call.ret = ""
    /\ call' = [call EXCEPT !.ret = Repr(safe_table_name(call.user_id, call.db_name))]
    /\ UNCHANGED <<sql, verdict, user_databases, tables, next_uuid, last, pending, bound, now, utcnow, lent>>

InitNames ==
    /\ sql = ""
    /\ verdict = NotValidated
    /\ user_databases = {}
    /\ tables = <<>>
    /\ next_uuid = 1
    /\ last = NoRequest
    /\ call \in {NameCall(u, n) : u \in TenantIds, n \in LongNames}
    /\ pending = {}
    /\ bound = {}
    /\ now = 1
    /\ utcnow = 1
    /\ lent = 0

NextNames == DeriveName

SpecNames == InitNames /\ [][NextNames]_vars

-----------------------------------------------------------------------------
(* DatabaseManager called by requests that overlap.  A provision is one     *)
(* transaction and takes effect at its commit.  A delete_database call is   *)
(* its lookup, on a connection of its own, and later its transaction, which *)
(* takes effect at its commit; a call that is lost in between (the process  *)
(* or the connection fails) commits nothing.                                *)

MaxInFlight == 2

\* the number that tells a call in flight from another with the same arguments
FreeSlot == Least[(1..MaxInFlight) \ {p.n : p \in pending}]

\* delete_database up to the return of its lookup: a call that finds nothing
\* returns False, one that finds the descriptor goes on to its transaction
RemoveLookup ==
    /\ Returned
    /\ Cardinality(pending) < MaxInFlight
    /\ \E u \in UserIds, d \in DbIds :
            \E found \in {get_database_by_id(Store, d, u)} :
                IF found.ret = None
                THEN Return("delete_database", u, d, "", <<>>, "",
                            Result(Store, FALSE, "", found.ev))
                ELSE /\ pending' = pending \cup {[n |-> FreeSlot, user_id |-> u, db_id |-> d,
                                                  found |-> found]}
                     /\ UNCHANGED <<sql, verdict, user_databases, tables, next_uuid, last, call, bound, now, utcnow, lent>>

\* the transaction of a delete_database call whose lookup found the descriptor
RemoveTransaction ==
    /\ Returned
    /\ \E p \in pending :
            \E r \in {DropAndUnregister(Store, p.db_id, p.user_id, p.found)} :
                /\ user_databases' = r.st.reg
                /\ tables' = r.st.tabs
                /\ call' = Call("delete_database", p.user_id, p.db_id,
                                The(p.found.ret).db_name, <<>>, "", r)
                /\ pending' = pending \ {p}
                /\ bound' = bound \cup Bindings(r.st.reg)
                /\ UNCHANGED <<sql, verdict, next_uuid, last, now, utcnow, lent>>

\* a delete_database call is lost before its transaction commits
Crash ==
    /\ \E p \in pending : pending' = pending \ {p}
    /\ UNCHANGED <<sql, verdict, user_databases, tables, next_uuid, last, call, bound, now, utcnow, lent>>

NextConcurrent ==
    \/ Provision
    \/ RemoveLookup
    \/ RemoveTransaction
    \/ Crash
    \/ Finish

SpecConcurrent == Init /\ [][NextConcurrent]_vars

-----------------------------------------------------------------------------
(* Properties of the registry, the gateway and the handlers, under Spec.   *)

\* the descriptor db_id is registered to user_id; to another tenant
Owns(user_id, db_id) == \E r \in user_databases : r.id = db_id /\ r.user_id = user_id
OwnedByOther(user_id, db_id) == \E r \in user_databases : r.id = db_id /\ r.user_id # user_id

\* an id no descriptor ever has
NeverRegistered == UuidStr(0)

\* the indexes of the events of a kind
EventsOf(ev, kinds) == {i \in 1..Len(ev) : ev[i].kind \in kinds}

\* the statements a request sent to the store, the ownership lookup apart
StoreStatements(ev) == {i \in EventsOf(ev, {"execute"}) : ev[i].sql # LookupSql}

\* the handlers that run statement text
TextHandlers == {"execute_sql", "execute_natural_language"}

\* the handlers over the four gateway operations
GatewayHandlers == TextHandlers \cup {"insert_data", "get_all_data", "delete_database"}

\* the request called a gateway operation
GatewayCalled ==
    \/ last.handler \in {"insert_data", "get_all_data", "delete_database"}
    \/ last.handler \in TextHandlers /\ EventsOf(last.ev, {"execute_query"}) # {}

\* the statement get_all_data sends
SampleSql(name) == "SELECT * FROM " \o name \o " ORDER BY created_at DESC"

C2_OwnershipOnEveryCall ==
    /\ GatewayCalled =>
            /\ EventsOf(last.ev, {"execute"}) # {}
            /\ last.ev[Least[EventsOf(last.ev, {"execute"})]] = EvExecute(LookupSql)
    /\ (last.handler \in GatewayHandlers /\ ~last.owned) =>
            /\ StoreStatements(last.ev) = {}
            /\ EventsOf(last.ev, {"commit"}) = {}
            /\ ~last.changed
            /\ last.status \in {HTTP_NOT_FOUND, HTTP_BAD_REQUEST}
    /\ Idle =>
        \A u \in UserIds, d \in DbIds :
            ~Owns(u, d) =>
                /\ \A q \in Statements :
                    /\ execute_query(Store, d, u, q, <<>>)
                            = execute_query(Store, NeverRegistered, u, q, <<>>)
                    /\ execute_query(Store, d, u, q, <<>>)
                            = Result(Store, {}, ErrNotFound,
                                     <<EvGetConn, EvExecute(LookupSql), EvPutConn>>)
                /\ \A data \in Datas :
                    /\ insert_data(Store, d, u, data)
                            = insert_data(Store, NeverRegistered, u, data)
                    /\ insert_data(Store, d, u, data).exc = ErrNotFound
                    /\ insert_data(Store, d, u, data).st = Store
                /\ get_all_data(Store, d, u) = get_all_data(Store, NeverRegistered, u)
                /\ get_all_data(Store, d, u).exc = ErrNotFound
                /\ get_all_data(Store, d, u).st = Store
                /\ delete_database(Store, d, u) = delete_database(Store, NeverRegistered, u)
                /\ delete_database(Store, d, u).ret = FALSE
                /\ delete_database(Store, d, u).st = Store

\* C2, its case: a tenant sent a DELETE through the descriptor of another tenant
\* whose table has rows
C2_ForeignDelete ==
    /\ last.handler = "execute_sql"
    /\ last.foreign
    /\ StartsWith[last.sql, "DELETE"]
    /\ last.db_name \in DOMAIN tables
    /\ tables[last.db_name].rows # {}

\* C3, as claimed: a statement executed through a descriptor of the requesting
\* tenant reaches the table of that descriptor and no other relation.
C3_OnlyOwnTable ==
    (last.handler \in TextHandlers /\ last.owned) =>
        \A i \in StoreStatements(last.ev) : TargetTable[last.ev[i].sql] = last.db_name

\* the events of a request that touch the store: a connection borrowed, a
\* statement sent
StoreAccess(ev) == EventsOf(ev, {"getconn", "execute"})

\* C4, as claimed: in both paths that run statement text validation comes before
\* every store access, and a statement that fails validation causes none.
C4_ValidationBeforeAnyAccess ==
    last.handler \in TextHandlers =>
        /\ \A i \in StoreAccess(last.ev) :
                \E k \in EventsOf(last.ev, {"validate"}) : k < i
        /\ ~validate_sql(last.sql).is_valid => StoreAccess(last.ev) = {}

\* C4, amended: execute_sql validates first and a statement that fails causes no
\* store access; execute_natural_language resolves the descriptor and reads the
\* sample before the statement exists, so before its validation only the lookup
\* and the sample read reach the store, and a generated statement that fails is
\* answered 400 with nothing after the validation and nothing changed.
C4_ValidationBeforeExecution ==
    /\ last.handler = "execute_sql" =>
            /\ last.ev # <<>>
            /\ last.ev[1] = EvValidate(last.sql)
            /\ ~validate_sql(last.sql).is_valid =>
                    /\ last.ev = <<EvValidate(last.sql)>>
                    /\ last.status = HTTP_BAD_REQUEST
                    /\ ~last.changed
    /\ last.handler = "execute_natural_language" =>
            \A k \in EventsOf(last.ev, {"validate"}) :
                /\ last.ev[k] = EvValidate(last.sql)
                /\ \A i \in 1..(k - 1) :
                        \/ last.ev[i].kind \in {"getconn", "putconn"}
                        \/ last.ev[i] \in {EvExecute(LookupSql),
                                           EvExecute(SampleSql(last.db_name))}
                /\ ~validate_sql(last.sql).is_valid =>
                        /\ k = Len(last.ev)
                        /\ last.status = HTTP_BAD_REQUEST
                        /\ ~last.changed

\* C4, its case: the language model answered a statement that fails validation,
\* for a descriptor of the requesting tenant
C4_GeneratedRejected ==
    /\ last.handler = "execute_natural_language"
    /\ last.owned
    /\ ~validate_sql(last.sql).is_valid
    /\ EventsOf(last.ev, {"validate"}) # {}

\* C5: execute_natural_language passes to execute_query only the generated text,
\* only right after validate_sql was applied to that text, and only if validate_sql
\* accepts it; a generated text that validate_sql rejects is answered 400 as a
\* caller's is.
C5_GeneratedTextValidated ==
    /\ last.handler = "execute_natural_language" =>
            \A i \in EventsOf(last.ev, {"execute_query"}) :
                /\ last.ev[i].sql = last.sql
                /\ validate_sql(last.sql).is_valid
                /\ i > 1
                /\ last.ev[i - 1] = EvValidate(last.sql)
    /\ (last.handler \in TextHandlers /\ last.owned /\ ~validate_sql(last.sql).is_valid) =>
            /\ last.status = HTTP_BAD_REQUEST
            /\ EventsOf(last.ev, {"execute_query"}) = {}

\* C5, its case: a generated INSERT was validated, executed and committed
C5_GeneratedExecuted ==
    /\ last.handler = "execute_natural_language"
    /\ last.status = HTTP_OK
    /\ last.changed
    /\ EventsOf(last.ev, {"execute_query"}) # {}

-----------------------------------------------------------------------------
(* Properties of validate_sql, under SpecValidator.                        *)

Validated == verdict # NotValidated

\* the first index >= i that is neither whitespace nor inside a /**/ comment
SkipBlank[s \in STRING, i \in Int] ==
    Let(SkipSpace[s, i], LAMBDA j : IF MatchAt[s, j, "/**/"] THEN SkipBlank[s, j + 4] ELSE j)

\* keyword w stands at index i of s and ends there
KeywordAt[s \in STRING, i \in Int, w \in STRING] ==
    /\ MatchAt[s, i, w]
    /\ ~(i + Len(w) <= Len(s) /\ IsWordChar(Ch(s, i + Len(w))))

\* the two-keyword operations the claim names
DestructivePairs == {<<"DROP", "TABLE">>, <<"DROP", "DATABASE">>, <<"ALTER", "TABLE">>}

\* a statement of u starts at index i, blanks and comments apart, with DROP TABLE,
\* DROP DATABASE, ALTER TABLE (blanks or comments between the keywords) or TRUNCATE
DestructiveStatementAt[u \in STRING, i \in Int] ==
    Let(SkipBlank[u, i],
        LAMBDA a :
            \/ KeywordAt[u, a, "TRUNCATE"]
            \/ \E p \in DestructivePairs :
                /\ KeywordAt[u, a, p[1]]
                /\ SkipBlank[u, a + Len(p[1])] > a + Len(p[1])
                /\ KeywordAt[u, SkipBlank[u, a + Len(p[1])], p[2]])

\* a word of u starts at index i and reads DROP TABLE, DROP DATABASE, ALTER TABLE
\* (whitespace between the keywords) or TRUNCATE
DestructiveWordsAt[u \in STRING, i \in Int] ==
    /\ ~(i > 1 /\ IsWordChar(Ch(u, i - 1)))
    /\ \/ KeywordAt[u, i, "TRUNCATE"]
       \/ \E p \in DestructivePairs :
            /\ KeywordAt[u, i, p[1]]
            /\ SkipSpace[u, i + Len(p[1])] > i + Len(p[1])
            /\ KeywordAt[u, SkipSpace[u, i + Len(p[1])], p[2]]

\* the text holds a drop, truncate or alter-table operation, in any letter case:
\* as a statement of its own, or as words anywhere in it
Destructive(text) ==
    Let(Upper[text],
        LAMBDA u :
            \/ \E i \in {1} \cup {j + 1 : j \in {k \in 1..Len(u) : Ch(u, k) = ";"}} :
                    DestructiveStatementAt[u, i]
            \/ \E i \in 1..Len(u) : DestructiveWordsAt[u, i])

\* C6: validate_sql rejects every text that holds a table drop, a database drop,
\* a truncate or an alter-table operation, whatever the letter case; "DROP TABLE x"
\* is rejected.
C6_DestructiveRejected ==
    Validated =>
        /\ Destructive(sql) => ~verdict.is_valid
        /\ sql = "DROP TABLE x" => ~verdict.is_valid

\* C6, its case: a drop in mixed letter case was validated
C6_MixedCaseDrop ==
    /\ Validated
    /\ Destructive(sql)
    /\ StartsWith[Strip[sql], "Drop"]

\* the leading keyword of a text: its first whitespace-delimited word, in upper case
LeadingKeyword(text) ==
    Let(Upper[Strip[text]], LAMBDA u : SubSeq(u, 1, SkipNonSpace[u, 1] - 1))

\* the text has a WHERE clause: the word WHERE, in any letter case
HasWhereClause(text) ==
    Let(Upper[text], LAMBDA u : \E i \in 1..Len(u) : OneWordAt[u, i, "WHERE"])

\* C7, as claimed: validate_sql rejects every DELETE without a WHERE clause, and
\* accepts "DELETE FROM t WHERE id = 'x'".
C7_DeleteNeedsWhere ==
    Validated =>
        /\ (LeadingKeyword(sql) = "DELETE" /\ ~HasWhereClause(sql)) => ~verdict.is_valid
        /\ sql = "DELETE FROM t WHERE id = 'x'" => verdict.is_valid

\* C8, as claimed: a single DELETE statement rejected for want of a WHERE clause
\* is reported with the missing-WHERE message.
C8_MissingWhereReported ==
    (/\ Validated
     /\ ~MultipleStatements(sql)
     /\ LeadingKeyword(sql) = "DELETE"
     /\ ~HasWhereClause(sql)
     /\ ~verdict.is_valid) => verdict.error_message = MsgMissingWhere

\* a terminator of the text is followed by text that is not whitespace
TextAfterTerminator(text) ==
    \E i \in 1..Len(text) : Ch(text, i) = ";" /\ SkipSpace[text, i + 1] <= Len(text)

\* the text ends, whitespace apart, with its only terminator
OneTrailingTerminator(text) == Count[text, ";"] = 1 /\ EndsWith[Strip[text], ";"]

\* the text before the trailing terminator
BeforeTerminator(text) == SubSeq(Strip[text], 1, Len(Strip[text]) - 1)

\* C9, as claimed: validate_sql rejects every text with text after a terminator,
\* and accepts a text that is valid without its one trailing terminator.
C9_TrailingTerminatorTolerated ==
    Validated =>
        /\ TextAfterTerminator(sql) => ~verdict.is_valid
        /\ (OneTrailingTerminator(sql) /\ validate_sql(BeforeTerminator(sql)).is_valid)
                => verdict.is_valid

\* C10: validate_sql accepts a text only if its leading keyword, in upper case
\* and with the surrounding whitespace trimmed, is SELECT, INSERT, UPDATE or
\* DELETE; the empty and the all-whitespace text are rejected.
C10_LeadingKeywordAllowed ==
    Validated =>
        /\ verdict.is_valid => LeadingKeyword(sql) \in {"SELECT", "INSERT", "UPDATE", "DELETE"}
        /\ Strip[sql] = "" => ~verdict.is_valid

\* C10, its case: a text whose leading keyword is in lower case was accepted
C10_LowerCaseAccepted ==
    /\ Validated
    /\ verdict.is_valid
    /\ StartsWith[Strip[sql], "select"]

-----------------------------------------------------------------------------
(* Properties of DatabaseManager called directly, under SpecManager.       *)

\* the last call is an execute of an INSERT
InsertExecuted == call.method = "execute_query" /\ StatementKind[call.query] = "INSERT"

\* the statements a call sent to the store after its lookup, in order
SentBy(ev) == [n \in 1..Cardinality(StoreStatements(ev)) |->
                    ev[Ascending(StoreStatements(ev))[n]].sql]

\* how often a column is named in the column list of an INSERT
TimesNamed(text, column) ==
    Let(ColumnsOf(InsertMatch[text]),
        LAMBDA cols : Cardinality({i \in 1..Len(cols) : cols[i] = column}))

\* C11, as claimed: the INSERT that execute sends for an INSERT with a column list
\* names id once and created_at once, whether or not the caller named them.
C11_SystemColumnsOnce ==
    (InsertExecuted /\ InsertMatch[call.query].matched) =>
        \A i \in StoreStatements(call.ev) :
            /\ TimesNamed(call.ev[i].sql, "id") = 1
            /\ TimesNamed(call.ev[i].sql, "created_at") = 1

\* C12, as claimed: an INSERT that is not INSERT INTO <table> (<columns>) VALUES
\* (<values>) is refused by execute and no statement of the call reaches the store
\* after the lookup.
C12_OtherInsertFormsRejected ==
    (InsertExecuted /\ ~InsertMatch[call.query].matched) =>
        /\ call.exc # ""
        /\ StoreStatements(call.ev) = {}

\* the store is as the call found it
StoreUntouched == user_databases = call.before.reg /\ tables = call.before.tabs

\* the rows a statement removed from or added to the table of the call's descriptor
RowsRemoved == call.before.tabs[call.db_name].rows \ tables[call.db_name].rows
RowsAdded == tables[call.db_name].rows \ call.before.tabs[call.db_name].rows

\* what the store answers to the first statement the call sent after its lookup,
\* in the store the call found
StoreAnswer ==
    PgExecute(call.before.reg, call.before.tabs,
              call.ev[Least[StoreStatements(call.ev)]].sql, <<>>, now)

\* C13: execute sends one statement after the lookup and ends its transaction at
\* most once; a statement the store accepts raises nothing and is not rolled back,
\* and if it is not a SELECT it is committed and the number of rows it added or
\* removed is returned; a statement the store refuses is rolled back, not
\* committed, the error reaches the caller, and the registry and the tables are as
\* the call found them.
C13_OneTransactionPerCall ==
    call.method = "execute_query" =>
        /\ Cardinality(StoreStatements(call.ev)) = 1
        /\ Cardinality(EventsOf(call.ev, {"commit", "rollback"})) <= 1
        /\ StoreAnswer.ok =>
                /\ call.exc = ""
                /\ EventsOf(call.ev, {"rollback"}) = {}
                /\ StatementKind[call.query] # "SELECT" =>
                        /\ EventsOf(call.ev, {"commit"}) # {}
                        /\ Least[EventsOf(call.ev, {"commit"})]
                                > Least[StoreStatements(call.ev)]
                        /\ call.ret = Repr({Cardinality(RowsRemoved \cup RowsAdded)})
        /\ ~StoreAnswer.ok =>
                /\ call.exc = ErrStore
                /\ EventsOf(call.ev, {"commit"}) = {}
                /\ EventsOf(call.ev, {"rollback"}) # {}
                /\ Least[EventsOf(call.ev, {"rollback"})] > Least[StoreStatements(call.ev)]
                /\ StoreUntouched

\* C13, its case: an INSERT failed on a table that has rows
C13_FailedInsertRolledBack ==
    /\ InsertExecuted
    /\ call.exc # ""
    /\ call.before.tabs[call.db_name].rows # {}
    /\ EventsOf(call.ev, {"rollback"}) # {}

\* C14: a provision whose CREATE TABLE the store refuses raises the store's error,
\* returns no id, is rolled back, sends no registry INSERT, and leaves the registry
\* and the tables as it found them; a provision whose CREATE TABLE the store
\* accepts raises nothing and adds one registry row.
C14_FailedProvisionWritesNothing ==
    call.method = "create_user_database" =>
        /\ StatementKind[call.ev[Least[StoreStatements(call.ev)]].sql] = "CREATE"
        /\ ~StoreAnswer.ok =>
                /\ call.exc = ErrStore
                /\ call.ret = Repr(None)
                /\ StoreUntouched
                /\ \A i \in EventsOf(call.ev, {"execute"}) : call.ev[i].sql # RegisterSql
                /\ EventsOf(call.ev, {"commit"}) = {}
                /\ EventsOf(call.ev, {"rollback"}) # {}
        /\ StoreAnswer.ok =>
                /\ call.exc = ""
                /\ Cardinality(user_databases \ call.before.reg) = 1
                /\ call.before.reg \subseteq user_databases

\* C14, its case: CREATE TABLE failed while the registry had an entry
C14_ProvisionFailed ==
    /\ call.method = "create_user_database"
    /\ call.exc # ""
    /\ call.before.reg # {}
    /\ \E i \in EventsOf(call.ev, {"execute"}) : StatementKind[call.ev[i].sql] = "CREATE"

\* C16, as claimed: no physical name is bound to two descriptors over the lifetime
\* of the store, at the same time or one after the other, also when the first was
\* deleted before the second was provisioned.
C16_NameNeverReused ==
    \A b1 \in bound, b2 \in bound : b1.db_name = b2.db_name => b1.id = b2.id

\* a field of the call is named as a system column is
NamesSystemColumn ==
    \E i \in 1..Len(call.fields) : call.fields[i].name \in {"id", "created_at"}

\* C18, as claimed: a provision whose field list names id or created_at is refused
\* with InvalidFieldName before any statement is sent, and creates no table and no
\* registry entry.
C18_SystemFieldNamesRejected ==
    (call.method = "create_user_database" /\ NamesSystemColumn) =>
        /\ call.exc = "InvalidFieldName"
        /\ EventsOf(call.ev, {"execute"}) = {}
        /\ StoreUntouched

\* C19: after a provision that succeeded, the lookup by the same tenant of the id
\* the provision returned yields the descriptor whose fields are the fields passed,
\* in their order, and whose db_name is the table the CREATE TABLE of the call made.
C19_ProvisionThenLookup ==
    (call.method = "create_user_database" /\ call.exc = "") =>
        \E row \in user_databases \ call.before.reg :
            LET found == get_database_by_id(Store, row.id, call.user_id)
            IN /\ call.ret = Repr(Some(row.id))
               /\ found.ret # None
               /\ The(found.ret).id = row.id
               /\ The(found.ret).schema.fields = call.fields
               /\ The(found.ret).db_name \in DOMAIN tables \ DOMAIN call.before.tabs
               /\ \E i \in StoreStatements(call.ev) :
                        /\ StatementKind[call.ev[i].sql] = "CREATE"
                        /\ TargetTable[call.ev[i].sql] = The(found.ret).db_name

\* C19, its case: two fields, the first with a name the column definition folds,
\* were provisioned under a logical name the physical name folds
C19_TwoFieldsProvisioned ==
    /\ call.method = "create_user_database"
    /\ call.exc = ""
    /\ Len(call.fields) = 2
    /\ call.fields[1].name = "Unit Price"
    /\ call.db_name = "My-Db"

\* the registry rows the remove was called for
Matched == {row \in call.before.reg : row.id = call.db_id /\ row.user_id = call.user_id}

\* C20: a remove raises nothing; called for a descriptor of the tenant it returns
\* True, the descriptor's table is dropped and its registry row, and no other, is
\* removed; called for anything else it returns False and changes nothing; the same
\* call made again returns False, raises nothing and changes nothing; the registry
\* row, the table and the rows of every other descriptor are as before.
C20_RemoveIdempotent ==
    call.method = "delete_database" =>
        /\ call.exc = ""
        /\ Matched # {} =>
                /\ call.ret = Repr(TRUE)
                /\ user_databases = call.before.reg \ Matched
                /\ DOMAIN tables = DOMAIN call.before.tabs \ {row.db_name : row \in Matched}
        /\ Matched = {} =>
                /\ call.ret = Repr(FALSE)
                /\ StoreUntouched
        /\ LET again == delete_database(Store, call.db_id, call.user_id)
           IN /\ again.ret = FALSE
              /\ again.exc = ""
              /\ again.st = Store
        /\ \A row \in call.before.reg \ Matched :
                /\ row \in user_databases
                /\ row.db_name \in DOMAIN tables
                /\ tables[row.db_name].rows = call.before.tabs[row.db_name].rows

\* C20, its case: a descriptor was removed while another descriptor had rows
C20_RemovedBesideOthers ==
    /\ call.method = "delete_database"
    /\ call.ret = Repr(TRUE)
    /\ \E row \in user_databases : tables[row.db_name].rows # {}

-----------------------------------------------------------------------------
(* Properties of safe_table_name, under SpecNames.                         *)

\* the part of the physical name that names the tenant
TenantPrefix(user_id) == "user_" \o Replace[user_id, "-", "_"] \o "_"

\* C17: the physical name derived for a tenant and a logical name is at most 63
\* characters long, begins with the whole prefix of the tenant, and differs from
\* the physical name derived for any other tenant and any logical name.
C17_TenantsNeverCollide ==
    (call.method = "safe_table_name" /\ call.ret # "") =>
        /\ Len(safe_table_name(call.user_id, call.db_name)) <= IdentifierLimit
        /\ StartsWith[safe_table_name(call.user_id, call.db_name),
                      TenantPrefix(call.user_id)]
        /\ \A u \in TenantIds \ {call.user_id}, n \in LongNames :
                Repr(safe_table_name(u, n)) # call.ret

\* C17, its case: the combined name was longer than the limit and was cut
C17_LongNameCut ==
    /\ call.method = "safe_table_name"
    /\ call.ret # ""
    /\ Len(TenantPrefix(call.user_id)) + Len(call.db_name) > IdentifierLimit

-----------------------------------------------------------------------------
(* Properties of provision and delete that overlap, under SpecConcurrent.  *)

\* C15, as claimed: whatever the interleaving of provisions and deletes, and
\* whichever calls are lost, the table of every registry entry exists.
C15_NoDanglingReference == \A row \in user_databases : row.db_name \in DOMAIN tables

-----------------------------------------------------------------------------
(* The records of one descriptor: insert (insert_data) and execute         *)
(* (execute_query) called one after the other on its table, while the      *)
(* clock of the store and the clock of the server advance.  The two clocks *)
(* are those of two hosts: each only moves forward, neither is tied to the *)
(* other.                                                                  *)

\* the largest reading of a clock
MaxClock == 2

\* the number of identifiers uuid.uuid4() hands out
MaxRecords == 4

\* the tenant, the logical name and the fields of the descriptor
RecordOwner == "a-1"
RecordsName == "x"
RecordFields ==
    << Field("item", Some("TEXT"), None), Field("qty", Some("INTEGER"), Some(TRUE)) >>

\* field-value mappings passed to insert
Mappings ==
    { << <<"item", "apples">> >>,
      << <<"id", "r1">>, <<"item", "pears">> >>,
      << <<"item", "plums">>, <<"created_at", "2024-01-09">> >>,
      << <<"qty", "3">> >> }

\* statement text passed to execute for the table t
RecordQueries(t) ==
    { "INSERT INTO " \o t \o " (item) VALUES ('milk')",
      "UPDATE " \o t \o " SET created_at = '2024-01-00' WHERE 1 = 1",
      "UPDATE " \o t \o " SET id = 'r9' WHERE id = 'r1'",
      "UPDATE " \o t \o " SET item = 'figs' WHERE 1 = 1" }

\* the mapped records of the transactions of a bulk import, in order: what
\* map_plaid_transaction_to_schema answers for each, None where it raises
Imports ==
    { << Some(<< <<"item", "apples">> >>), Some(<< <<"zzz", "1">> >>),
         Some(<< <<"id", "r1">>, <<"item", "pears">> >>) >>,
      << Some(<< <<"qty", "3">> >>), Some(<< <<"item", "plums">>, <<"qty", "4">> >>) >>,
      << None, Some(<< <<"item", "figs">> >>) >>,
      << >> }

PlaidTokenSql ==
    "SELECT access_token FROM plaid_tokens WHERE user_id = %s ORDER BY created_at DESC LIMIT 1"

\* get_plaid_token(user_id) -> access_token | None; the table plaid_tokens is not
\* kept: access_token is what the SELECT finds
get_plaid_token(st, user_id, access_token) ==
    Result(st, access_token, "", <<EvGetConn, EvExecute(PlaidTokenSql), EvPutConn>>)

\* the response of sync_plaid_transactions: "inserted" is inserted_count
SyncResponse(st, status, detail, inserted, ev) ==
    [st |-> st, status |-> status, detail |-> detail, inserted |-> inserted, ev |-> ev]

\* one turn of the loop over the transactions: the record is mapped and inserted
\* by insert_data, and counted if neither raised
SyncOne(sofar, user_id, db_id, mapped_data) ==
    IF mapped_data = None THEN sofar
    ELSE Let(insert_data(sofar.st, db_id, user_id, The(mapped_data)),
             LAMBDA r : [st |-> r.st,
                         inserted_count |-> sofar.inserted_count + (IF r.exc = "" THEN 1 ELSE 0),
                         ev |-> sofar.ev \o r.ev])

\* SyncLoop leaving the loop at the first record whose insert raised
RECURSIVE SyncLoopUntilFailure(_, _, _, _, _)
SyncLoopUntilFailure(sofar, user_id, db_id, mapped, i) ==
    IF i > Len(mapped) THEN sofar
    ELSE Let(SyncOne(sofar, user_id, db_id, mapped[i]),
             LAMBDA next :
                IF mapped[i] # None /\ next.inserted_count = sofar.inserted_count THEN next
                ELSE SyncLoopUntilFailure(next, user_id, db_id, mapped, i + 1))

\* the loop over the transactions from the i-th on
RECURSIVE SyncLoop(_, _, _, _, _)
SyncLoop(sofar, user_id, db_id, mapped, i) ==
    IF i > Len(mapped) THEN sofar
    ELSE Let(SyncOne(sofar, user_id, db_id, mapped[i]),
             LAMBDA next : SyncLoop(next, user_id, db_id, mapped, i + 1))

\* sync_plaid_transactions once the token was read and the descriptor looked up
Synced(user_id, db_id, mapped, token, db_info) ==
    Let(SyncLoop([st |-> db_info.st, inserted_count |-> 0, ev |-> token.ev \o db_info.ev],
                 user_id, db_id, mapped, 1),
        LAMBDA done :
            SyncResponse(done.st, HTTP_OK,
                         "Successfully synced " \o ToString(done.inserted_count)
                            \o " transactions",
                         done.inserted_count, done.ev))

\* POST /api/plaid/sync-transactions: an HTTPException raised inside the try block
\* is caught by `except Exception` and raised again as 400
sync_plaid_transactions(st, user_id, db_id, access_token, mapped) ==
    Let(get_plaid_token(st, user_id, access_token),
        LAMBDA token :
            IF token.ret = None
            THEN SyncResponse(st, HTTP_BAD_REQUEST,
                              "No bank connected. Please connect your bank first.", 0,
                              token.ev)
            ELSE Let(get_database_by_id(st, db_id, user_id),
                     LAMBDA db_info :
                        IF db_info.ret = None
                        THEN SyncResponse(st, HTTP_BAD_REQUEST, "Database not found", 0,
                                          token.ev \o db_info.ev)
                        ELSE Synced(user_id, db_id, mapped, token, db_info)))

\* the outcome of a request as the record of a call keeps it
Answered(res) ==
    Result(res.st, res.inserted, IF res.status = HTTP_OK THEN "" ELSE res.detail, res.ev)

\* the store after a call on the records and the record of the call
Recorded(method, db_id, db_name, data, query, r) ==
    /\ r.st.uuid <= MaxRecords + 1
    /\ user_databases' = r.st.reg
    /\ tables' = r.st.tabs
    /\ next_uuid' = r.st.uuid
    /\ call' = Call(method, RecordOwner, db_id, db_name, data, query, r)
    /\ bound' = bound \cup Bindings(r.st.reg)
    /\ UNCHANGED <<sql, verdict, last, pending, now, utcnow, lent>>

ProvisionRecords ==
    /\ Returned
    /\ user_databases = {}
    /\ \E r \in {create_user_database(Store, RecordOwner, RecordsName,
                                      Schema(RecordsName, RecordFields))} :
            Recorded("create_user_database", "", RecordsName, RecordFields, "", r)

InsertRecord ==
    /\ Returned
    /\ \E row \in user_databases, data \in Mappings :
            \E r \in {insert_data(Store, row.id, row.user_id, data)} :
                Recorded("insert_data", row.id, row.db_name, data, "", r)

ExecuteOnRecords ==
    /\ Returned
    /\ \E row \in user_databases :
            \E query \in RecordQueries(row.db_name) :
                \E r \in {execute_query(Store, row.id, row.user_id, query, <<>>)} :
                    Recorded("execute_query", row.id, row.db_name, <<>>, query, r)

SyncPlaidTransactions ==
    /\ Returned
    /\ \E row \in user_databases, mapped \in Imports, access_token \in {None, Some("access")} :
            \E res \in {sync_plaid_transactions(Store, row.user_id, row.id, access_token,
                                                 mapped)} :
                Recorded("sync_plaid_transactions", row.id, row.db_name, mapped, "",
                         Answered(res))

\* the clock of the store advances
TickNow ==
    /\ now < MaxClock
    /\ now' = now + 1
    /\ UNCHANGED <<sql, verdict, user_databases, tables, next_uuid, last, call, pending,
                   bound, utcnow, lent>>

\* the clock of the server advances
TickUtcNow ==
    /\ utcnow < MaxClock
    /\ utcnow' = utcnow + 1
    /\ UNCHANGED <<sql, verdict, user_databases, tables, next_uuid, last, call, pending,
                   bound, now, lent>>

NextRecords ==
    \/ ProvisionRecords
    \/ InsertRecord
    \/ ExecuteOnRecords
    \/ SyncPlaidTransactions
    \/ TickNow
    \/ TickUtcNow
    \/ Finish

SpecRecords == Init /\ [][NextRecords]_vars

-----------------------------------------------------------------------------
(* The connection pool: SimpleConnectionPool(1, 20, ...) lends a           *)
(* connection to each _get_connection() and takes it back at               *)
(* _release_connection(conn).  The calls are made one after the other; a   *)
(* call may meet a connection on which conn.cursor() or conn.commit()      *)
(* raises (the server closed it while it lay in the pool).                 *)

\* maxconn of SimpleConnectionPool(1, 20, self.database_url)
MaxConn == 20

\* pool.getconn() with every connection lent out raises PoolError at once
EvPoolError == [kind |-> "poolerror", sql |-> ""]
ErrPoolExhausted == "connection pool exhausted"

\* cursor.close() in a finally block when conn.cursor() raised: cursor is unbound
ErrUnbound == "UnboundLocalError"

\* what a call may meet: no failure; conn.cursor() raising on the first or the
\* second connection the call takes; conn.commit() raising
NoFault == [step |-> "", at |-> 0]
Faults ==
    { NoFault, [step |-> "cursor", at |-> 1], [step |-> "cursor", at |-> 2],
      [step |-> "commit", at |-> 0] }

\* the index in ev of the n-th connection taken, 0 if fewer are taken
NthGetConn(ev, n) ==
    Let({i \in 1..Len(ev) :
            /\ ev[i].kind = "getconn"
            /\ Cardinality({j \in 1..i : ev[j].kind = "getconn"}) = n},
        LAMBDA at : IF at = {} THEN 0 ELSE Least[at])

\* the call with outcome r when conn.cursor() raises on its n-th connection.  The
\* try block is left before a statement is sent; a method with an except clause
\* rolls back (get_database_by_id has none); the finally block raises at
\* cursor.close(), and _release_connection(conn) after it is not reached.  The
\* methods write on their last connection only: the store is as the call found
\* it (an identifier drawn for a row that was never stored is not counted)
CursorRaised(st, r, n) ==
    Let(NthGetConn(r.ev, n),
        LAMBDA g :
            IF g = 0 THEN r
            ELSE Result(st, None, ErrUnbound,
                        SubSeq(r.ev, 1, g)
                            \o (IF r.ev[g + 1].sql = LookupSql THEN <<>> ELSE <<EvRollback>>)))

\* the call with outcome r when conn.commit() raises: the except clause rolls
\* back and the finally block closes the cursor and releases the connection
CommitRaised(st, r) ==
    IF \E i \in 1..Len(r.ev) : r.ev[i].kind = "commit"
    THEN Result(st, None, ErrStore,
                [i \in 1..Len(r.ev) |-> IF r.ev[i].kind = "commit" THEN EvRollback ELSE r.ev[i]])
    ELSE r

\* the call with outcome r made while out connections are lent out: the first
\* statement of every method is conn = self._get_connection(), outside its try
\* block
Pooled(st, r, fault, out) ==
    IF out >= MaxConn THEN Result(st, None, ErrPoolExhausted, <<EvPoolError>>)
    ELSE IF fault.step = "cursor" THEN CursorRaised(st, r, fault.at)
    ELSE IF fault.step = "commit" THEN CommitRaised(st, r)
    ELSE r

\* the number of events of a kind among the events of a call
EventCount(ev, kind) == Cardinality({i \in 1..Len(ev) : ev[i].kind = kind})

\* statement text passed to execute for the table t
PoolQueries(t) ==
    { "SELECT * FROM " \o t,
      "UPDATE " \o t \o " SET item = 'figs' WHERE 1 = 1",
      "DELETE FROM missing WHERE 1 = 1" }

\* the store and the pool after a call, and the record of the call
Released(method, db_id, db_name, query, r) ==
    /\ user_databases' = r.st.reg
    /\ tables' = r.st.tabs
    /\ next_uuid' = r.st.uuid
    /\ call' = Call(method, RecordOwner, db_id, db_name, <<>>, query, r)
    /\ bound' = bound \cup Bindings(r.st.reg)
    /\ lent' = lent + EventCount(r.ev, "getconn") - EventCount(r.ev, "putconn")
    /\ UNCHANGED <<sql, verdict, last, pending, now, utcnow>>

PoolProvision ==
    /\ Returned
    /\ user_databases = {}
    /\ \E made \in {create_user_database(Store, RecordOwner, RecordsName,
                                         Schema(RecordsName, RecordFields))} :
            \E fault \in Faults :
                \E r \in {Pooled(Store, made, fault, lent)} :
                    Released("create_user_database", "", RecordsName, "", r)

PoolExecute ==
    /\ Returned
    /\ \E row \in user_databases :
            \E query \in PoolQueries(row.db_name) :
                \E ran \in {execute_query(Store, row.id, row.user_id, query, <<>>)} :
                    \E fault \in Faults :
                        \E r \in {Pooled(Store, ran, fault, lent)} :
                            Released("execute_query", row.id, row.db_name, query, r)

PoolGetAllData ==
    /\ Returned
    /\ \E d \in DbIds :
            \E rows \in {get_all_data(Store, d, RecordOwner)} :
                \E fault \in Faults :
                    \E r \in {Pooled(Store, rows, fault, lent)} :
                        Released("get_all_data", d, "", "", r)

NextPool ==
    \/ PoolProvision
    \/ PoolExecute
    \/ PoolGetAllData
    \/ Finish

SpecPool == Init /\ [][NextPool]_vars

-----------------------------------------------------------------------------
(* The INSERT rewrite of execute_query on its own: RewriteInsert applied   *)
(* to INSERT statements of up to MaxTuples value tuples.                   *)

MaxTuples == 2

\* INSERT INTO <table> (<columns>) VALUES, as callers write it
InsertHeads ==
    { "INSERT INTO user_a_1_x (item, qty) VALUES ",
      "insert into user_a_1_x(item,qty) values" }

\* a first value tuple: literals, placeholders, a function call, a literal that
\* contains a closing parenthesis
FirstTuples == { "('milk', 3)", "(%s, %s)", "(lower('MILK'), 3)", "('a)b', 3)" }

\* n further value tuples
RECURSIVE FurtherTuples(_)
FurtherTuples(n) == IF n = 0 THEN "" ELSE ", ('eggs', 12)" \o FurtherTuples(n - 1)

\* what follows the first value tuple
InsertTails ==
    {FurtherTuples(n) \o returning : n \in 0..(MaxTuples - 1), returning \in {"", " RETURNING id"}}

InsertTexts == {head \o first \o tail : head \in InsertHeads, first \in FirstTuples, tail \in InsertTails}

\* the rewrite to make, as the record of a call not yet made
RewriteCall(query) == [NoCall EXCEPT !.method = "RewriteInsert", !.query = query]

Rewrite ==
    /\ call.method = "RewriteInsert"
    /\ call.ret = ""
    /\ call' = [call EXCEPT !.ret = RewriteInsert(call.query, UuidStr(next_uuid))]
    /\ next_uuid' = next_uuid + 1
    /\ UNCHANGED <<sql, verdict, user_databases, tables, last, pending, bound, now, utcnow, lent>>

InitRewrite ==
    /\ sql = ""
    /\ verdict = NotValidated
    /\ user_databases = {}
    /\ tables = <<>>
    /\ next_uuid \in 1..MaxUuid
    /\ last = NoRequest
    /\ call \in {RewriteCall(q) : q \in InsertTexts}
    /\ pending = {}
    /\ bound = {}
    /\ now = 1
    /\ utcnow = 1
    /\ lent = 0

NextRewrite == Rewrite

SpecRewrite == InitRewrite /\ [][NextRewrite]_vars

-----------------------------------------------------------------------------
(* Claims about the records (SpecRecords).                                 *)

\* the reading of the clock that a TIMESTAMP value holds
Instant(ts) == CHOOSE n \in 0..9 : Timestamp(n) = ts

\* the rows of the table of the call's descriptor when the call was made
RowsBefore == call.before.tabs[call.db_name].rows

\* C21: each successful insert (insert_data) adds exactly one row to the
\* descriptor's table and removes none; the id of the new row is the id of no row
\* that was in the table, and its created_at is greater than or equal to the
\* created_at of every row that was in the table, whether insert_data or a
\* rewritten INSERT of execute_query put it there.
C21_InsertAddsOneLaterRow ==
    (call.method = "insert_data" /\ call.exc = "")
        => /\ Cardinality(RowsAdded) = 1
           /\ RowsRemoved = {}
           /\ \A new \in RowsAdded :
                /\ new.id \notin {r.id : r \in RowsBefore}
                /\ \A r \in RowsBefore : Instant(r.created_at) <= Instant(new.created_at)

\* C22: the id and the created_at of a row are those it was inserted with: after
\* insert (insert_data), and after execute of a statement that validate_sql
\* accepts, every row that was in the table is in it with the same id and the same
\* created_at, unless the statement is a DELETE, which only removes rows.
C22_SystemColumnsImmutable ==
    (\/ call.method = "insert_data"
     \/ (call.method = "execute_query" /\ validate_sql(call.query).is_valid))
        => IF call.method = "execute_query" /\ StatementKind[call.query] = "DELETE"
           THEN tables[call.db_name].rows \subseteq RowsBefore
           ELSE RowsBefore \subseteq tables[call.db_name].rows

\* the indexes of the INSERT statements among the events of the call, ascending
InsertsSent ==
    Ascending({i \in 1..Len(call.ev) :
                    call.ev[i].kind = "execute" /\ StartsWith[call.ev[i].sql, "INSERT"]})

\* the mapped records of the import that were passed to insert, in order
RecordsPassed == SelectSeq(call.fields, LAMBDA mapped_data : mapped_data # None)

\* the store takes the row of a mapped record into the table the call found: the
\* keys are columns of the table, every column that needs a value other than id has
\* one, and an id among the keys is the id of no row
Acceptable(mapping) ==
    LET columns == call.before.tabs[call.db_name].columns
        keys == {mapping[i][1] : i \in 1..Len(mapping)}
    IN /\ keys \subseteq {columns[j].name : j \in 1..Len(columns)}
       /\ \A j \in 1..Len(columns) :
                (columns[j].required /\ columns[j].name # "id") => columns[j].name \in keys
       /\ \A i \in 1..Len(mapping) :
                mapping[i][1] = "id" => mapping[i][2] \notin {r.id : r \in RowsBefore}

\* C23: in a bulk import (sync_plaid_transactions) every mapped record is passed to
\* its own INSERT on a connection taken for it, and that INSERT is committed or
\* rolled back on its own; the INSERT of a record is committed exactly if the store
\* takes its row, whatever happened to the records before and after it; the table
\* gains one row per committed INSERT and loses none, and the inserted count of the
\* response is the number of committed INSERTs.
C23_ImportIsolatesRecords ==
    (call.method = "sync_plaid_transactions" /\ call.exc = "")
        => /\ Len(InsertsSent) = Len(RecordsPassed)
           /\ \A k \in 1..Len(InsertsSent) :
                /\ call.ev[InsertsSent[k] - 1].kind = "getconn"
                /\ call.ev[InsertsSent[k] + 1].kind \in {"commit", "rollback"}
                /\ call.ev[InsertsSent[k] + 2].kind = "putconn"
                /\ call.ev[InsertsSent[k] + 1].kind = "commit"
                        <=> Acceptable(The(RecordsPassed[k]))
           /\ Cardinality(RowsAdded)
                = Cardinality({k \in 1..Len(InsertsSent) :
                                    call.ev[InsertsSent[k] + 1].kind = "commit"})
           /\ RowsBefore \subseteq tables[call.db_name].rows
           /\ call.ret
                = Repr(Cardinality({k \in 1..Len(InsertsSent) :
                                        call.ev[InsertsSent[k] + 1].kind = "commit"}))

\* C23, its case: an import of three records, the second of which the store
\* refused, inserted the first and the third
C23_MiddleRecordFailed ==
    /\ call.method = "sync_plaid_transactions"
    /\ call.exc = ""
    /\ Len(call.fields) = 3
    /\ Len(InsertsSent) = 3
    /\ call.ev[InsertsSent[1] + 1].kind = "commit"
    /\ call.ev[InsertsSent[2] + 1].kind = "rollback"
    /\ call.ev[InsertsSent[3] + 1].kind = "commit"
    /\ Cardinality(RowsAdded) = 2

-----------------------------------------------------------------------------
(* Claims about the connection pool (SpecPool).                            *)

\* the most connections the call held at once
HeldAtOnce ==
    Greatest[{0} \cup {EventCount(SubSeq(call.ev, 1, i), "getconn")
                            - EventCount(SubSeq(call.ev, 1, i), "putconn")
                        : i \in 1..Len(call.ev)}]

\* C24: a call holds one connection at a time and has returned every connection
\* it took when it ends, whether it ends by returning or by raising (conn.cursor()
\* failed, the statement failed, conn.commit() failed); when no call is in
\* progress no connection is lent out.
C24_ConnectionsReturned ==
    /\ ~Returned
            => /\ HeldAtOnce <= 1
               /\ EventCount(call.ev, "getconn") = EventCount(call.ev, "putconn")
    /\ Returned => lent = 0

\* C25: a call that finds every connection of the pool lent out waits for a
\* connection to be returned before it gives up; when it gives up it raises the
\* pool's exhaustion error and the registry and the tables are as it found them.
C25_ExhaustedPoolWaits ==
    (~Returned /\ call.exc = ErrPoolExhausted)
        => /\ \E i \in 1..Len(call.ev) : call.ev[i].kind = "wait"
           /\ user_databases = call.before.reg
           /\ tables = call.before.tabs

-----------------------------------------------------------------------------
(* The characters of the physical name, under SpecNames.                   *)

\* C26: the physical name derived for a tenant and a logical name contains only
\* letters, digits and underscores, whatever the logical name: the name is
\* lower-cased, its whitespace becomes underscores and its punctuation is dropped.
C26_NameIsLettersDigitsUnderscores ==
    (call.method = "safe_table_name" /\ call.ret # "") =>
        Let(safe_table_name(call.user_id, call.db_name),
            LAMBDA name : \A i \in 1..Len(name) : IsWordChar(SubSeq(name, i, i)))

\* C27: the record id a successful insert (insert_data) returns is the id of the
\* row the call added to the table, whatever keys the field-value mapping has
\* (id and created_at among them).
C27_ReturnedIdIsStoredId ==
    (call.method = "insert_data" /\ call.exc = "")
        => \A new \in RowsAdded : call.ret = Repr(Some(new.id))

-----------------------------------------------------------------------------
(* Overlapping delete_database calls, under SpecConcurrent.                *)

\* C28: of the delete_database calls for one descriptor and tenant that overlap
\* at most one returns True, none raises, and after each the descriptor and its
\* table are gone.  A registry row is removed only by the transaction of a
\* delete_database call, which then returns True: at most one call returns True
\* exactly if a call that returns True found the descriptor still registered
\* when its transaction began.
C28_OneRemoveReturnsTrue ==
    (~Returned /\ call.method = "delete_database") =>
        /\ call.exc = ""
        /\ call.ret = Repr(TRUE)
                => RegistryRows(call.before.reg, call.db_id, call.user_id) # {}
        /\ RegistryRows(user_databases, call.db_id, call.user_id) = {}
        /\ call.db_name # "" => call.db_name \notin DOMAIN tables

-----------------------------------------------------------------------------
(* The rewritten INSERT as the store reads it, under SpecRewrite.          *)

\* the expressions of a value tuple without the blanks around them
Stripped(tuple) == [i \in 1..Len(tuple) |-> Strip[tuple[i]]]

\* the text after the first value tuple of an INSERT statement with a column list
AfterFirstTuple(text) ==
    Let(SkipSpace[text, SkipSpace[text, FindChar[text, 1, ")"] + 1] + Len("VALUES")],
        LAMBDA v : SubSeq(text, CloseOf[text, v + 1, 0, FALSE] + 1, Len(text)))

\* C29: the rewritten INSERT names the caller's table, the caller's columns
\* between id and created_at, and in its first value tuple the caller's values in
\* their order between the new identifier and NOW(), also when a value contains
\* a closing parenthesis; what follows the caller's first value tuple (further
\* tuples, a RETURNING clause) follows the rewritten one.
C29_RewritePreservesStatement ==
    (call.method = "RewriteInsert" /\ call.ret # "") =>
        Let2(InsertStatement(call.query), InsertStatement(call.ret),
             LAMBDA asked, sent :
                /\ InsertMatch[call.ret].table_name = InsertMatch[call.query].table_name
                /\ sent.named
                /\ ColumnsOf(sent) = <<"id">> \o ColumnsOf(asked) \o <<"created_at">>
                /\ Len(sent.tuples) = Len(asked.tuples)
                /\ Len(sent.tuples) >= 1
                /\ Len(sent.tuples[1]) = Len(asked.tuples[1]) + 2
                /\ Stripped(SubSeq(sent.tuples[1], 2, Len(sent.tuples[1]) - 1))
                        = Stripped(asked.tuples[1])
                /\ Stripped(sent.tuples[1])[Len(sent.tuples[1])] = "NOW()"
                /\ AfterFirstTuple(call.ret) = AfterFirstTuple(call.query))

-----------------------------------------------------------------------------
(* Claims about the descriptors and their tables (SpecManager).            *)

\* the names of the fields of a descriptor as the registry row stores them
FieldNames(row) ==
    Let(Descriptor(row).schema.fields, LAMBDA fields : [i \in 1..Len(fields) |-> fields[i].name])

\* the names of the columns of a table between id and created_at
UserColumns(t) ==
    [i \in 1..(Len(tables[t].columns) - 2) |-> tables[t].columns[i + 1].name]

\* C30: for every descriptor of the registry, the field names of its stored field
\* list are the names of the user columns of its table, in the same order, and
\* insert (insert_data) of a mapping that has the field names as its keys succeeds.
C30_FieldNamesAreColumns ==
    \A row \in user_databases :
        row.db_name \in DOMAIN tables
            => /\ FieldNames(row) = UserColumns(row.db_name)
               /\ insert_data(Store, row.id, row.user_id,
                              [i \in 1..Len(FieldNames(row)) |-> <<FieldNames(row)[i], "1">>]).exc
                    = ""

====
